---------------------------- MODULE Spec2Model ----------------------------
(***************************************************************************)
(* Verification model of bbs-selective-disclosure-example.                 *)
(*                                                                         *)
(* Two layers are modelled, each with its own specification:               *)
(*   SpecBBS : the BBS+ primitive of pkg/bbs/service.go (ProductionService,*)
(*             the second, "production" revision held in that file):       *)
(*             GenerateKeyPair, Sign, Verify, CreateProof, VerifyProof.    *)
(*   Spec    : the credential workflow: pkg/vc service and repositories    *)
(*             and the issuer / holder / verifier use cases.               *)
(*                                                                         *)
(* Group model.  BLS12-381 G1 and G2 are cyclic groups of prime order r.   *)
(* A point is represented by its discrete logarithm to the base of the     *)
(* group generator, so point addition is addition mod r and scalar         *)
(* multiplication is multiplication mod r; the identity is 0.  The field   *)
(* order is scaled down to the small prime FieldOrder, so that every       *)
(* outcome of the random source can be enumerated.                         *)
(***************************************************************************)
EXTENDS Integers, Sequences, FiniteSets, TLC

VARIABLES
    \* ---- BBS+ primitive (SpecBBS) ----
    keyPair,        \* key pair returned by GenerateKeyPair, or NoKeyPair
    signed,         \* last successful Sign call: messages and signature
    proofMade,      \* last successful CreateProof call: arguments and proof
    bbsLast,        \* the last BBS call and what it returned
    \* ---- credential workflow (Spec) ----
    keyStore,       \* ServiceImpl.keyStore: issuer DID -> key pair
    issued,         \* credentials returned by IssueCredential so far
    credentials,    \* InMemoryCredentialRepository.credentials: id -> credential
    presentation,   \* presentation last returned by Holder.CreatePresentation
    presentations,  \* InMemoryPresentationRepository.presentations: id -> presentation
    last,           \* the last workflow call and what it returned
    \* ---- verification requests (SpecRequests) ----
    requests,       \* what CreateVerificationRequest was given and returned, in order
    \* ---- DID repository (SpecDID) ----
    documents,      \* InMemoryRepository.documents: DID -> document (a pointer)
    updated,        \* the documents whose Updated field was written
    didLog,         \* the calls made on the repository and what they returned
    \* ---- concurrent requests on one credential service (SpecConcurrent) ----
    workers,        \* per request worker: where it is in its key-store access
    crashed,        \* the runtime stopped the process (fatal error)
    \* ---- provider factory and its test endpoint (SpecProvider) ----
    providerLast,   \* the last factory or handler call and what it returned
    \* ---- age claims (SpecAge) ----
    ageLast         \* the last age computation: birth date, clock, result

bbsVars == <<keyPair, signed, proofMade, bbsLast>>
wfVars  == <<keyStore, issued, credentials, presentation, presentations, last>>
reqVars == <<requests>>
didVars == <<documents, updated, didLog>>
coreVars  == <<bbsVars, wfVars, reqVars>>
concVars == <<workers, crashed>>
pureVars == <<providerLast, ageLast>>
extraVars == <<didVars, concVars, pureVars>>
vars    == <<keyPair, signed, proofMade, bbsLast,
             keyStore, issued, credentials, presentation, presentations, last, requests,
             documents, updated, didLog, workers, crashed, providerLast, ageLast>>

(***************************************************************************)
(* Bounds and program constants                                            *)
(***************************************************************************)
\* scalar field order r of BLS12-381, scaled down to a small prime
FieldOrder == 3
\* byte lengths of the encodings the code checks
FrBytes == 32
G1Bytes == 96
Sha256Size == 32
MinProofBytes == 300
G2Bytes == 192
\* longest message vector given to Sign
MaxMsgs == 2
\* issuers set up, credentials issued, credentials per presentation request,
\* presentations kept by the verifier
MaxIssuers == 1
MaxIssued  == 1
MaxKey     == 0
MaxCreds   == 1
MaxPres    == 1
\* credentials per presentation request where the holder alone is looked at
MaxCredsMany == 2
\* calls of CreateVerificationRequest
MaxRequests == 3
\* bytes added after an encoded proof
MaxTrailing == 4
\* calls on the DID repository
MaxDidCalls == 4
\* requests served at the same time
MaxWorkers == 2

(***************************************************************************)
(* Byte strings                                                            *)
(***************************************************************************)
\* Message and nonce bytes are sequences over a one-letter alphabet; the
\* lengths differ, so that concatenations of different splits can coincide.
Messages == { <<>>, <<1>> }
Nonces   == { <<>>, <<1>>, <<1, 1>> }

RECURSIVE SeqsUpTo(_, _)
SeqsUpTo(S, n) ==
    IF n = 0 THEN { <<>> }
    ELSE LET shorter == SeqsUpTo(S, n - 1)
         IN  shorter \cup { Append(q, x) : q \in { p \in shorter : Len(p) = n - 1 }, x \in S }

MessageVectors == SeqsUpTo(Messages, MaxMsgs)

RECURSIVE Concat(_)
Concat(ss) == IF ss = <<>> THEN <<>> ELSE Head(ss) \o Concat(Tail(ss))

RECURSIVE BytesSum(_)
BytesSum(data) == IF data = <<>> THEN 0 ELSE Head(data) + BytesSum(Tail(data))

(***************************************************************************)
(* Field and group arithmetic (github.com/kilic/bls12-381)                 *)
(***************************************************************************)
Fr == 0 .. (FieldOrder - 1)

FrAdd(a, b) == (a + b) % FieldOrder
FrMul(a, b) == (a * b) % FieldOrder
FrNeg(a)    == (FieldOrder - a) % FieldOrder
\* Fr.Inverse: the inverse of zero is zero
FrInverse(a) == IF a = 0 THEN 0 ELSE CHOOSE x \in Fr : FrMul(a, x) = 1

G1Zero == 0
G1One  == 1
G1Add(p, q)       == (p + q) % FieldOrder
G1MulScalar(p, k) == (p * k) % FieldOrder
G1IsZero(p)       == p = G1Zero

G2One == 1
G2Add(p, q)       == (p + q) % FieldOrder
G2MulScalar(p, k) == (p * k) % FieldOrder

\* encodings: a byte string of a fixed length holding a point or a scalar;
\* pt = -1 stands for bytes that are not the coordinates of a curve point
ScalarBytes(k) == [len |-> FrBytes, v |-> k]
G1ToBytes(p)   == [len |-> G1Bytes, pt |-> p]
G2ToBytes(p)   == [len |-> G2Bytes, pt |-> p]
G1FromBytesOk(b) == b.len = G1Bytes /\ b.pt \in Fr
G2FromBytesOk(b) == b.len = G2Bytes /\ b.pt \in Fr
FrFromBytes(b)   == b.v

\* SHA-256 is collision free: a digest is represented by its preimage
Sha256(data) == data
\* a digest read as a scalar of the (small) field, for arithmetic
FrFromDigest(d) == (BytesSum(d) + Len(d)) % FieldOrder

\* what rand.Read can return, read as a big-endian number: the multiples of
\* the field order among them are 0, r and 2r
RandomBytes == 0 .. (2 * FieldOrder)

\* scalar.Mod(scalar, fieldOrder), written back as 32 bytes
ScalarFromRandom(n) == ScalarBytes(n % FieldOrder)

\* outcomes of generateRandomScalar: 32 random bytes reduced mod r; zero is
\* not rejected
generateRandomScalar == { ScalarFromRandom(n) : n \in RandomBytes }

\* fmt.Sprintf("H%d", i+1) as bytes: 'H' and the ASCII digit
HPrefix(i) == << 72, 48 + i + 1 >>

\* mapToG1: hash-to-curve; never the identity
mapToG1(message) == 1 + ((BytesSum(message) + Len(message)) % (FieldOrder - 1))

\* hashToChallengeScalar: SHA-256 of the data, not reduced
hashToChallengeScalar(data) == Sha256(data)

\* the term Hi^mi of message number i (0-based) of a vector
MessageTerm(i, message) ==
    G1MulScalar(mapToG1(HPrefix(i) \o message), FrFromDigest(Sha256(message)))

\* B = H1^m1 * ... * Hn^mn, the loop of Sign and of Verify
RECURSIVE ComputeB(_, _)
ComputeB(messages, n) ==
    IF n = 0 THEN G1Zero
    ELSE G1Add(ComputeB(messages, n - 1), MessageTerm(n - 1, messages[n]))


(***************************************************************************)
(* BBS+ primitive: pkg/bbs/service.go, ProductionService                   *)
(***************************************************************************)
NoKeyPair == [PrivateKey |-> [len |-> 0, v |-> 0], PublicKey |-> [len |-> 0, pt |-> 0]]
NoSignature == [A |-> [len |-> 0, pt |-> 0], E |-> [len |-> 0, v |-> 0], S |-> [len |-> 0, v |-> 0]]
NoProof ==
    [A_prime |-> [len |-> 0, pt |-> 0], A_bar |-> [len |-> 0, pt |-> 0], C |-> <<>>,
     R2 |-> [len |-> 0, v |-> 0], R3 |-> [len |-> 0, v |-> 0],
     HiddenResponses |-> <<>>, RevealedAttributes |-> <<>>, Nonce |-> <<>>]

\* GenerateKeyPair, given the outcome of generateRandomScalar
GenerateKeyPair(privateKey) ==
    [PrivateKey |-> privateKey,
     PublicKey  |-> G2ToBytes(G2MulScalar(G2One, FrFromBytes(privateKey)))]

\* a validation of the lengths and the encoding only
ValidateKeyPairFormat(kp) ==
    IF kp.PrivateKey.len # FrBytes THEN "invalid private key length"
    ELSE IF kp.PublicKey.len # G2Bytes THEN "invalid public key length"
    ELSE IF ~G2FromBytesOk(kp.PublicKey) THEN "invalid public key format"
    ELSE ""

\* ValidateKeyPair: "" or the error
ValidateKeyPair(kp) ==
    IF kp.PrivateKey.len # FrBytes THEN "invalid private key length"
    ELSE IF kp.PublicKey.len # G2Bytes THEN "invalid public key length"
    ELSE LET expectedPublicKey == G2MulScalar(G2One, FrFromBytes(kp.PrivateKey))
         IN  IF ~G2FromBytesOk(kp.PublicKey) THEN "invalid public key format"
             ELSE IF G2ToBytes(expectedPublicKey) # kp.PublicKey
                  THEN "public key does not correspond to private key"
             ELSE ""

\* Sign, given the two outcomes e and s_val of generateRandomScalar
Sign(privateKey, messages, e, s_val) ==
    IF privateKey.len # FrBytes
    THEN [err |-> "invalid private key length", sig |-> NoSignature]
    ELSE LET B        == ComputeB(messages, Len(messages))
             g1s      == G1MulScalar(G1One, FrFromBytes(s_val))
             temp     == G1Add(G1Add(G1One, B), g1s)
             exponent == FrInverse(FrAdd(FrFromBytes(e), FrFromBytes(privateKey)))
             A        == G1MulScalar(temp, exponent)
         IN  [err |-> "", sig |-> [A |-> G1ToBytes(A), E |-> e, S |-> s_val]]

\* Verify: decoding and zero checks only; the pairing equation
\* e(A, pk^e + g2) = e(g1 + B + g1^s, g2) is computed up to its right-hand
\* G2 point and never compared
Verify(publicKey, signature, messages) ==
    LET B        == ComputeB(messages, Len(messages))
        g1s      == G1MulScalar(G1One, FrFromBytes(signature.S))
        leftSide == G1Add(G1Add(G1One, B), g1s)
    IN  IF publicKey.len # G2Bytes THEN "invalid public key length"
        ELSE IF ~G1FromBytesOk(signature.A) THEN "invalid signature A"
        ELSE IF ~G2FromBytesOk(publicKey) THEN "invalid public key"
        ELSE IF G1IsZero(signature.A.pt) THEN "signature verification failed: A is zero"
        ELSE IF G1IsZero(leftSide) THEN "signature verification failed: computed left side is zero"
        ELSE IF signature.A.len # G1Bytes \/ signature.E.len # FrBytes \/ signature.S.len # FrBytes
             THEN "signature verification failed: invalid component sizes"
        ELSE ""

\* a validation of the revealed indices that checks their range only
validateIndexRange(revealedIndices, totalMessages) ==
    IF \E j \in 1 .. Len(revealedIndices) :
           revealedIndices[j] < 0 \/ revealedIndices[j] >= totalMessages
    THEN "out of range"
    ELSE ""

\* validateMessageIndices: "" or the error
RECURSIVE validateMessageIndices(_, _)
validateMessageIndices(revealedIndices, totalMessages) ==
    IF revealedIndices = <<>> THEN ""
    ELSE LET n    == Len(revealedIndices)
             idx  == revealedIndices[n]
             init == SubSeq(revealedIndices, 1, n - 1)
             before == validateMessageIndices(init, totalMessages)
         IN  IF before # "" THEN before
             ELSE IF idx < 0 \/ idx >= totalMessages THEN "out of range"
             ELSE IF \E j \in 1 .. (n - 1) : init[j] = idx THEN "duplicate revealed index"
             ELSE ""

\* the messages at the revealed (0-based) indices, in the order of the list
RevealedOf(messages, revealedIndices) ==
    [j \in 1 .. Len(revealedIndices) |-> messages[revealedIndices[j] + 1]]

\* sum of the revealed message terms added to A_bar
RECURSIVE RevealedTerms(_, _, _)
RevealedTerms(messages, revealedIndices, n) ==
    IF n = 0 THEN G1Zero
    ELSE G1Add(RevealedTerms(messages, revealedIndices, n - 1),
               MessageTerm(revealedIndices[n], messages[revealedIndices[n] + 1]))

\* a challenge input that leaves the nonce out
ChallengeDataNoNonce(A_prime, A_bar, nonce, revealedMessages) ==
    << A_prime.pt, A_bar.pt >> \o Concat(revealedMessages)

\* challenge input: A' || A_bar || nonce || revealed messages.  The two point
\* encodings have a fixed length and are one element each.
ChallengeData(A_prime, A_bar, nonce, revealedMessages) ==
    << A_prime.pt, A_bar.pt >> \o nonce \o Concat(revealedMessages)

\* CreateProof, given the two outcomes r1 and r2 of generateRandomScalar
CreateProof(signature, publicKey, messages, revealedIndices, nonce, r1, r2) ==
    IF Len(nonce) = 0 THEN [err |-> "nonce is required", proof |-> NoProof]
    ELSE IF publicKey.len # G2Bytes THEN [err |-> "invalid public key length", proof |-> NoProof]
    ELSE IF validateMessageIndices(revealedIndices, Len(messages)) # ""
         THEN [err |-> "invalid revealed indices", proof |-> NoProof]
    ELSE IF ~G1FromBytesOk(signature.A) THEN [err |-> "invalid signature A", proof |-> NoProof]
    ELSE LET A_prime == G1MulScalar(signature.A.pt, FrFromBytes(r1))
             eNeg    == FrNeg(FrFromBytes(signature.E))
             g1r2    == G1MulScalar(G1One, FrFromBytes(r2))
             A_bar   == G1Add(G1Add(G1MulScalar(A_prime, eNeg), g1r2),
                              RevealedTerms(messages, revealedIndices, Len(revealedIndices)))
             challengeHash == hashToChallengeScalar(
                                  ChallengeData(G1ToBytes(A_prime), G1ToBytes(A_bar), nonce,
                                                RevealedOf(messages, revealedIndices)))
             r3 == FrAdd(FrFromBytes(r2),
                         FrMul(FrFromDigest(challengeHash), FrFromBytes(signature.S)))
         IN  [err |-> "",
              proof |-> [A_prime |-> G1ToBytes(A_prime), A_bar |-> G1ToBytes(A_bar),
                         C |-> challengeHash, R2 |-> r2, R3 |-> ScalarBytes(r3),
                         HiddenResponses |-> <<>>,
                         RevealedAttributes |-> revealedIndices, Nonce |-> nonce]]

\* VerifyProof: "" or the error.  The two challenge scalars are compared;
\* reading a digest as a scalar is injective on digests.
VerifyProof(publicKey, proof, revealedMessages, nonce) ==
    IF publicKey.len # G2Bytes THEN "invalid public key length"
    ELSE IF Len(revealedMessages) # Len(proof.RevealedAttributes)
         THEN "mismatch between revealed messages and indices"
    ELSE IF ~G1FromBytesOk(proof.A_prime) THEN "invalid A'"
    ELSE IF ~G1FromBytesOk(proof.A_bar) THEN "invalid A_bar"
    ELSE LET expectedChallenge ==
                 hashToChallengeScalar(
                     ChallengeData(G1ToBytes(proof.A_prime.pt), G1ToBytes(proof.A_bar.pt),
                                   nonce, revealedMessages))
         IN  IF proof.C # expectedChallenge THEN "challenge verification failed"
             ELSE IF G1IsZero(proof.A_prime.pt) THEN "proof verification failed: A' is zero"
             ELSE ""


(***************************************************************************)
(* EncodeProof / DecodeProof.  A byte of the serialization is a record: a  *)
(* byte of a length prefix, an index or the nonce holds its value in `of`  *)
(* with at = 0; the i-th byte of the encoding of a point, a scalar or a    *)
(* digest x is [of |-> x, at |-> i].                                       *)
(***************************************************************************)
\* the bytes of a value whose encoding is n bytes long
Block(x, n) == [i \in 1 .. n |-> [of |-> x, at |-> i]]
\* the bytes of a point or scalar encoding / of a digest / of plain bytes
FieldBytes(b)  == Block(b, b.len)
DigestBytes(d) == Block(d, Sha256Size)
PlainBytes(bs) == [i \in 1 .. Len(bs) |-> [of |-> bs[i], at |-> 0]]

\* data[offset : offset+n], offsets counted from 0
Slice(data, offset, n) == SubSeq(data, offset + 1, offset + n)

\* whether the bytes are the whole encoding of one value, of length n
WholeBlock(bytes, n) ==
    /\ Len(bytes) = n
    /\ n > 0
    /\ \A i \in 1 .. Len(bytes) : bytes[i].at = i

\* the point, scalar or digest that the bytes encode; bytes that are not the
\* encoding of one value are another value than every value encoded
PointOf(bytes) ==
    IF bytes = <<>> THEN [len |-> 0, pt |-> 0]
    ELSE IF bytes[1].at = 1 /\ WholeBlock(bytes, bytes[1].of.len) THEN bytes[1].of
    ELSE [len |-> Len(bytes), pt |-> -1]
ScalarOf(bytes) ==
    IF bytes = <<>> THEN [len |-> 0, v |-> 0]
    ELSE IF bytes[1].at = 1 /\ WholeBlock(bytes, bytes[1].of.len) THEN bytes[1].of
    ELSE [len |-> Len(bytes), v |-> -1]
DigestOf(bytes) ==
    IF bytes # <<>> /\ bytes[1].at = 1 /\ WholeBlock(bytes, Sha256Size) THEN bytes[1].of
    ELSE << -1 >>

\* a count written with the least significant byte first
LE4(n) == PlainBytes(<< n % 256, (n \div 256) % 256, (n \div 65536) % 256,
                        (n \div 16777216) % 256 >>)

\* byte(n>>24), byte(n>>16), byte(n>>8), byte(n)
BE4(n) == PlainBytes(<< (n \div 16777216) % 256, (n \div 65536) % 256,
                        (n \div 256) % 256, n % 256 >>)

\* int(data[offset])<<24 | int(data[offset+1])<<16 | int(data[offset+2])<<8 | int(data[offset+3])
ReadBE4(data, offset) ==
    data[offset + 1].of * 16777216 + data[offset + 2].of * 65536
        + data[offset + 3].of * 256 + data[offset + 4].of

\* base64.StdEncoding: every 3 bytes make a quantum of 4 characters; a last
\* group of 1 or 2 bytes makes a padded quantum.  A quantum is represented by
\* the bytes it encodes.
Base64Encode(data) ==
    [q \in 1 .. ((Len(data) + 2) \div 3) |->
        SubSeq(data, 3 * q - 2, IF 3 * q < Len(data) THEN 3 * q ELSE Len(data))]

\* base64.StdEncoding.DecodeString: padding is accepted in the last quantum only
Base64Decode(encoded) ==
    IF \E i \in 1 .. Len(encoded) :
           Len(encoded[i]) = 0 \/ Len(encoded[i]) > 3
               \/ (i < Len(encoded) /\ Len(encoded[i]) # 3)
    THEN [ok |-> FALSE, data |-> <<>>]
    ELSE IF encoded = <<>> THEN [ok |-> TRUE, data |-> <<>>]
    ELSE [ok |-> TRUE,
          data |-> [i \in 1 .. (3 * (Len(encoded) - 1) + Len(encoded[Len(encoded)])) |->
                       encoded[((i - 1) \div 3) + 1][((i - 1) % 3) + 1]]]

\* the bytes that EncodeProof builds before the base64 step
ProofData(proof) ==
    FieldBytes(proof.A_prime) \o FieldBytes(proof.A_bar) \o DigestBytes(proof.C)
        \o FieldBytes(proof.R2) \o FieldBytes(proof.R3)
        \o BE4(Len(proof.RevealedAttributes))
        \o Concat([i \in 1 .. Len(proof.RevealedAttributes) |->
                      BE4(proof.RevealedAttributes[i])])
        \o BE4(Len(proof.HiddenResponses))
        \o Concat([i \in 1 .. Len(proof.HiddenResponses) |->
                      FieldBytes(proof.HiddenResponses[i])])
        \o BE4(Len(proof.Nonce))
        \o PlainBytes(proof.Nonce)

\* EncodeProof
EncodeProof(proof) == Base64Encode(ProofData(proof))

\* the variable-size part of DecodeProof, from the offset after R3
DecodeProofTail(data, fixed) ==
    LET n  == Len(data)
        o0 == 2 * G1Bytes + 3 * FrBytes
        failed(msg) == [err |-> msg, proof |-> NoProof]
    IN  IF o0 + 4 > n THEN failed("insufficient data for revealed attributes count")
        ELSE
        LET revealedCount == ReadBE4(data, o0)
            o1 == o0 + 4
        IN  IF o1 + revealedCount * 4 > n
            THEN failed("insufficient data for revealed attributes")
            ELSE
            LET revealedAttributes ==
                    [i \in 1 .. revealedCount |-> ReadBE4(data, o1 + 4 * (i - 1))]
                o2 == o1 + 4 * revealedCount
            IN  IF o2 + 4 > n THEN failed("insufficient data for hidden responses count")
                ELSE
                LET hiddenCount == ReadBE4(data, o2)
                    o3 == o2 + 4
                IN  IF o3 + hiddenCount * FrBytes > n
                    THEN failed("insufficient data for hidden responses")
                    ELSE
                    LET hiddenResponses ==
                            [i \in 1 .. hiddenCount |->
                                ScalarOf(Slice(data, o3 + FrBytes * (i - 1), FrBytes))]
                        o4 == o3 + FrBytes * hiddenCount
                    IN  IF o4 + 4 > n THEN failed("insufficient data for nonce length")
                        ELSE
                        LET nonceLen == ReadBE4(data, o4)
                            o5 == o4 + 4
                        IN  IF o5 + nonceLen > n THEN failed("insufficient data for nonce")
                            ELSE [err |-> "",
                                  proof |-> [fixed EXCEPT
                                      !.HiddenResponses = hiddenResponses,
                                      !.RevealedAttributes = revealedAttributes,
                                      !.Nonce = [i \in 1 .. nonceLen |-> data[o5 + i].of]]]

\* DecodeProof: the error ("" for none) and the proof
DecodeProof(encoded) ==
    LET decoded == Base64Decode(encoded)
        data    == decoded.data
    IN  IF ~decoded.ok THEN [err |-> "failed to decode proof", proof |-> NoProof]
        ELSE IF Len(data) < MinProofBytes
             THEN [err |-> "invalid proof data length", proof |-> NoProof]
        ELSE DecodeProofTail(data,
                 [NoProof EXCEPT
                     !.A_prime = PointOf(Slice(data, 0, G1Bytes)),
                     !.A_bar   = PointOf(Slice(data, G1Bytes, G1Bytes)),
                     !.C       = DigestOf(Slice(data, 2 * G1Bytes, FrBytes)),
                     !.R2      = ScalarOf(Slice(data, 2 * G1Bytes + FrBytes, FrBytes)),
                     !.R3      = ScalarOf(Slice(data, 2 * G1Bytes + 2 * FrBytes, FrBytes))])

(***************************************************************************)
(* SpecBBS: calls of the BBS+ primitive                                    *)
(***************************************************************************)
NoSigned    == [messages |-> <<>>, sig |-> NoSignature, done |-> FALSE]
NoProofMade == [revealedIndices |-> <<>>, nonce |-> <<>>, proof |-> NoProof, done |-> FALSE]
NoBbsCall   == [op |-> "none", privateKey |-> NoKeyPair.PrivateKey,
                publicKey |-> NoKeyPair.PublicKey, sig |-> NoSignature,
                messages |-> <<>>, revealedIndices |-> <<>>, nonce |-> <<>>,
                proof |-> NoProof, decoded |-> NoProof, trailing |-> 0, err |-> ""]

\* public keys a caller can pass: every G2 point, and malformed bytes
PublicKeys ==
    { G2ToBytes(k) : k \in Fr } \cup { [len |-> G1Bytes, pt |-> 1], [len |-> G2Bytes, pt |-> -1] }

\* revealed index lists a caller can pass, valid or not
IndexLists == SeqsUpTo(-1 .. MaxMsgs, MaxMsgs)

\* A call that fails, and a call of Verify or VerifyProof, changes nothing but
\* bbsLast: every continuation of it is a continuation of the state before
\* the call, and it is explored from there only.
BbsContinue ==
    /\ bbsLast.err = ""
    /\ bbsLast.op \notin {"Verify", "VerifyProof", "ValidateKeyPair", "DecodeProof",
                          "DecodeProofInput"}

BGenerateKeyPair ==
    /\ keyPair = NoKeyPair
    /\ \E privateKey \in generateRandomScalar :
          /\ keyPair' = GenerateKeyPair(privateKey)
          /\ bbsLast' = [NoBbsCall EXCEPT !.op = "GenerateKeyPair",
                                          !.publicKey = keyPair'.PublicKey]
    /\ UNCHANGED <<signed, proofMade>>
    /\ UNCHANGED wfVars
    /\ UNCHANGED reqVars
    /\ UNCHANGED extraVars

\* private keys a caller can pass: every scalar, and one byte short
PrivateKeys == generateRandomScalar \cup { [len |-> FrBytes - 1, v |-> k] : k \in Fr }

BValidateKeyPair ==
    /\ keyPair # NoKeyPair
    /\ ~signed.done
    /\ BbsContinue
    /\ \E privateKey \in PrivateKeys, publicKey \in PublicKeys :
          bbsLast' = [NoBbsCall EXCEPT !.op = "ValidateKeyPair", !.privateKey = privateKey,
                                       !.publicKey = publicKey,
                                       !.err = ValidateKeyPair([PrivateKey |-> privateKey,
                                                                PublicKey |-> publicKey])]
    /\ UNCHANGED <<keyPair, signed, proofMade>>
    /\ UNCHANGED wfVars
    /\ UNCHANGED reqVars
    /\ UNCHANGED extraVars

BSign ==
    /\ keyPair # NoKeyPair
    /\ BbsContinue
    /\ ~signed.done
    /\ \E privateKey \in { keyPair.PrivateKey, [len |-> FrBytes - 1, v |-> 0] },
          messages \in MessageVectors,
          e \in generateRandomScalar, s_val \in generateRandomScalar :
          LET r == Sign(privateKey, messages, e, s_val)
          IN  /\ signed' = IF r.err = ""
                           THEN [messages |-> messages, sig |-> r.sig, done |-> TRUE]
                           ELSE signed
              /\ bbsLast' = [NoBbsCall EXCEPT !.op = "Sign", !.messages = messages,
                                              !.sig = r.sig, !.err = r.err]
    /\ UNCHANGED <<keyPair, proofMade>>
    /\ UNCHANGED wfVars
    /\ UNCHANGED reqVars
    /\ UNCHANGED extraVars

BVerify ==
    /\ signed.done
    /\ BbsContinue
    /\ ~proofMade.done
    /\ \E publicKey \in PublicKeys, messages \in MessageVectors,
          signature \in { signed.sig, [signed.sig EXCEPT !.A.pt = -1] } :
          bbsLast' = [NoBbsCall EXCEPT !.op = "Verify", !.publicKey = publicKey,
                                       !.sig = signature, !.messages = messages,
                                       !.err = Verify(publicKey, signature, messages)]
    /\ UNCHANGED <<keyPair, signed, proofMade>>
    /\ UNCHANGED wfVars
    /\ UNCHANGED reqVars
    /\ UNCHANGED extraVars

BCreateProof ==
    /\ signed.done
    /\ BbsContinue
    /\ ~proofMade.done
    /\ \E revealedIndices \in IndexLists, nonce \in Nonces,
          r1 \in generateRandomScalar, r2 \in generateRandomScalar :
          LET r == CreateProof(signed.sig, keyPair.PublicKey, signed.messages,
                               revealedIndices, nonce, r1, r2)
          IN  /\ proofMade' = IF r.err = ""
                              THEN [revealedIndices |-> revealedIndices, nonce |-> nonce,
                                    proof |-> r.proof, done |-> TRUE]
                              ELSE proofMade
              /\ bbsLast' = [NoBbsCall EXCEPT !.op = "CreateProof",
                                              !.publicKey = keyPair.PublicKey,
                                              !.sig = signed.sig,
                                              !.messages = signed.messages,
                                              !.revealedIndices = revealedIndices,
                                              !.nonce = nonce, !.proof = r.proof,
                                              !.err = r.err]
    /\ UNCHANGED <<keyPair, signed>>
    /\ UNCHANGED wfVars
    /\ UNCHANGED reqVars
    /\ UNCHANGED extraVars

BVerifyProof ==
    /\ proofMade.done
    /\ BbsContinue
    /\ \E publicKey \in { keyPair.PublicKey, [len |-> G1Bytes, pt |-> 1] },
          revealedMessages \in MessageVectors, nonce \in Nonces :
          bbsLast' = [NoBbsCall EXCEPT !.op = "VerifyProof", !.publicKey = publicKey,
                                       !.messages = revealedMessages, !.nonce = nonce,
                                       !.proof = proofMade.proof,
                                       !.err = VerifyProof(publicKey, proofMade.proof,
                                                           revealedMessages, nonce)]
    /\ UNCHANGED <<keyPair, signed, proofMade>>
    /\ UNCHANGED wfVars
    /\ UNCHANGED reqVars
    /\ UNCHANGED extraVars


(***************************************************************************)
(* Credential workflow: data                                               *)
(***************************************************************************)
\* DIDs.  GenerateDID returns a fresh DID; IssuerDIDs[k] is the k-th one
\* allocated to an issuer.  The DID past MaxIssuers belongs to no issuer set up.
IssuerDIDs == << "did:test:issuer1", "did:test:issuer2", "did:test:issuer3" >>
IssuerDIDSet == { IssuerDIDs[k] : k \in 1 .. (MaxIssuers + 1) }
NoDID == ""
Holder1 == "did:test:holder1"
Holder2 == "did:test:holder2"
HolderDIDs == { Holder1, Holder2 }
SubjectDIDs == { "", Holder1 }

\* claims an issuance request can carry; a value is a JSON value (a DID is a
\* JSON string like any other)
ClaimAge  == [Key |-> "age", Value |-> "18"]
ClaimName == [Key |-> "name", Value |-> "Ann"]
ClaimId   == [Key |-> "id", Value |-> Holder1]
ClaimLists == { <<>>, <<ClaimAge, ClaimName>>, <<ClaimId, ClaimAge>> }
\* the value an altered claim is given
AlteredValue == "21"

EmptyMap == [k \in {} |-> ""]
NoVcProof == [Type |-> "", VerificationMethod |-> NoDID,
              ProofValue |-> [signer |-> NoKeyPair.PrivateKey, messages |-> <<>>],
              RevealedAttributes |-> <<>>]
NoCredential == [ID |-> 0, Issuer |-> NoDID, CredentialSubject |-> EmptyMap,
                 Proof |-> NoVcProof]
NoPresentation == [ID |-> 0, Holder |-> NoDID, VerifiableCredential |-> <<>>,
                   Proof |-> ""]
NoResult == [Valid |-> FALSE, Errors |-> <<>>, RevealedClaims |-> EmptyMap,
             HolderDID |-> NoDID, IssuerDIDs |-> <<>>]

\* map assignment m[k] = v of Go
MapSet(m, k, v) == [x \in (DOMAIN m) \cup {k} |-> IF x = k THEN v ELSE m[x]]

(***************************************************************************)
(* pkg/vc: ServiceImpl                                                     *)
(***************************************************************************)
\* the loop of IssueCredential filling credentialSubject from the claims
RECURSIVE SubjectWithClaims(_, _, _)
SubjectWithClaims(credentialSubject, claims, n) ==
    IF n = 0 THEN credentialSubject
    ELSE MapSet(SubjectWithClaims(credentialSubject, claims, n - 1),
                claims[n].Key, claims[n].Value)

\* an issuance that signs for any issuer DID, registered or not
ServiceIssueUnregistered(store, issuerDID, subjectDID, claims, id) ==
    [err |-> "",
     credential |->
        [ID |-> id, Issuer |-> issuerDID,
         CredentialSubject |->
             SubjectWithClaims(MapSet(EmptyMap, "id", subjectDID), claims, Len(claims)),
         Proof |-> [Type |-> "BbsBlsSignature2020", VerificationMethod |-> issuerDID,
                    ProofValue |-> [signer |-> NoKeyPair.PrivateKey,
                                    messages |-> [i \in 1 .. Len(claims) |-> claims[i].Value]],
                    RevealedAttributes |-> [i \in 1 .. Len(claims) |-> i - 1]]]]

\* ServiceImpl.IssueCredential; id is the outcome of uuid.New().  The
\* messages signed are the JSON encodings of the claim values, in order; the
\* encoding is injective and a message is represented by the value encoded.
\* The signature is represented by what Sign was given.
ServiceIssueCredential(store, issuerDID, subjectDID, claims, id) ==
    IF issuerDID \notin DOMAIN store
    THEN [err |-> "no key pair found for issuer DID", credential |-> NoCredential]
    ELSE LET messages == [i \in 1 .. Len(claims) |-> claims[i].Value]
         IN  [err |-> "",
              credential |->
                [ID |-> id,
                 Issuer |-> issuerDID,
                 CredentialSubject |->
                     SubjectWithClaims(MapSet(EmptyMap, "id", subjectDID), claims, Len(claims)),
                 Proof |-> [Type |-> "BbsBlsSignature2020",
                            VerificationMethod |-> issuerDID,
                            ProofValue |-> [signer |-> store[issuerDID].PrivateKey,
                                            messages |-> messages],
                            RevealedAttributes |-> [i \in 1 .. Len(claims) |-> i - 1]]]]

\* ServiceImpl.VerifyCredential: the BBS+ verification is skipped
ServiceVerifyCredential(vc) ==
    IF vc = NoCredential THEN "credential is nil"
    ELSE IF vc.Proof = NoVcProof THEN "credential has no proof"
    ELSE ""

\* a disclosure that copies the whole credential subject
RevealAllAttributes(derivedSubject, credentialSubject, attrs, n) == credentialSubject

\* the loop of createSelectiveDisclosureCredential over the revealed attributes
RECURSIVE RevealAttributes(_, _, _, _)
RevealAttributes(derivedSubject, credentialSubject, attrs, n) ==
    IF n = 0 THEN derivedSubject
    ELSE LET before == RevealAttributes(derivedSubject, credentialSubject, attrs, n - 1)
         IN  IF attrs[n] \in DOMAIN credentialSubject
             THEN MapSet(before, attrs[n], credentialSubject[attrs[n]])
             ELSE before

\* createSelectiveDisclosureCredential; randomNonce is the outcome of rand.Read
createSelectiveDisclosureCredential(credential, request, randomNonce) ==
    LET withId == IF "id" \in DOMAIN credential.CredentialSubject
                  THEN MapSet(EmptyMap, "id", credential.CredentialSubject["id"])
                  ELSE EmptyMap
        nonceStr == IF request.Nonce # "" THEN request.Nonce ELSE randomNonce
    IN  [id |-> credential.ID,
         issuer |-> credential.Issuer,
         credentialSubject |->
             RevealAttributes(withId, credential.CredentialSubject,
                              request.RevealedAttributes, Len(request.RevealedAttributes)),
         proof |-> [type |-> "BbsBlsSignatureProof2020",
                    verificationMethod |-> credential.Proof.VerificationMethod,
                    proofValue |-> "derived-proof-placeholder",
                    nonce |-> nonceStr,
                    revealedAttributes |-> request.RevealedAttributes]]

\* ServiceImpl.CreatePresentation; id is the outcome of uuid.New()
ServiceCreatePresentation(holderDID, creds, disclosureRequests, randomNonces, id) ==
    IF Len(creds) # Len(disclosureRequests)
    THEN [err |-> "mismatch between credentials and disclosure requests",
          presentation |-> NoPresentation]
    ELSE [err |-> "",
          presentation |->
            [ID |-> id,
             Holder |-> holderDID,
             VerifiableCredential |->
                 [i \in 1 .. Len(creds) |->
                     createSelectiveDisclosureCredential(creds[i], disclosureRequests[i],
                                                         randomNonces[i])],
             Proof |-> "BbsBlsSignatureProof2020"]]

\* ServiceImpl.VerifyPresentation: structure only
ServiceVerifyPresentation(vp) ==
    IF vp = NoPresentation THEN "presentation is nil"
    ELSE IF vp.Proof = "" THEN "presentation has no proof"
    ELSE ""


(***************************************************************************)
(* Use cases: internal/issuer, internal/holder, internal/verifier          *)
(***************************************************************************)
\* issuer.UseCase.IssueCredential
IssuerIssueCredential(store, req, id) ==
    IF req.IssuerDID = "" THEN [err |-> "issuer DID is required", credential |-> NoCredential]
    ELSE IF req.SubjectDID = ""
         THEN [err |-> "subject DID is required", credential |-> NoCredential]
    ELSE IF Len(req.Claims) = 0
         THEN [err |-> "at least one claim is required", credential |-> NoCredential]
    ELSE ServiceIssueCredential(store, req.IssuerDID, req.SubjectDID, req.Claims, id)

\* holder.UseCase.StoreCredential: "" or the error; the repository is
\* written exactly when the result is ""
HolderStoreCredential(credential) ==
    IF credential = NoCredential THEN "credential is nil"
    ELSE IF ServiceVerifyCredential(credential) # "" THEN "credential verification failed"
    ELSE ""

\* InMemoryCredentialRepository.Store / InMemoryPresentationRepository.Store
RepositoryStore(repo, item) == MapSet(repo, item.ID, item)

\* a retrieval loop that looks for the credentials and not at their subject
RECURSIVE RetrievePresent(_, _, _, _)
RetrievePresent(repo, holderDID, ids, n) ==
    IF n = 0 THEN ""
    ELSE IF RetrievePresent(repo, holderDID, ids, n - 1) # ""
         THEN RetrievePresent(repo, holderDID, ids, n - 1)
    ELSE IF ids[n] \notin DOMAIN repo THEN "failed to retrieve credential"
    ELSE ""

\* the retrieval loop of holder.UseCase.CreatePresentation: the error of the
\* first credential id that is missing or belongs to another subject
RECURSIVE RetrieveAll(_, _, _, _)
RetrieveAll(repo, holderDID, ids, n) ==
    IF n = 0 THEN ""
    ELSE LET before == RetrieveAll(repo, holderDID, ids, n - 1)
         IN  IF before # "" THEN before
             ELSE IF ids[n] \notin DOMAIN repo THEN "failed to retrieve credential"
             ELSE IF "id" \notin DOMAIN repo[ids[n]].CredentialSubject
                     \/ repo[ids[n]].CredentialSubject["id"] # holderDID
                  THEN "credential does not belong to holder"
             ELSE ""

\* holder.UseCase.CreatePresentation
HolderCreatePresentation(repo, req, randomNonces, id) ==
    IF req.HolderDID = ""
    THEN [err |-> "holder DID is required", presentation |-> NoPresentation]
    ELSE IF Len(req.CredentialIDs) = 0
         THEN [err |-> "at least one credential ID is required", presentation |-> NoPresentation]
    ELSE IF Len(req.CredentialIDs) # Len(req.SelectiveDisclosure)
         THEN [err |-> "mismatch between credential IDs and selective disclosure requests",
               presentation |-> NoPresentation]
    ELSE IF RetrieveAll(repo, req.HolderDID, req.CredentialIDs, Len(req.CredentialIDs)) # ""
         THEN [err |-> RetrieveAll(repo, req.HolderDID, req.CredentialIDs, Len(req.CredentialIDs)),
               presentation |-> NoPresentation]
    ELSE LET creds == [i \in 1 .. Len(req.CredentialIDs) |-> repo[req.CredentialIDs[i]]]
             disclosureRequests ==
                 [i \in 1 .. Len(req.SelectiveDisclosure) |->
                     IF req.Nonce # ""
                     THEN [req.SelectiveDisclosure[i] EXCEPT !.Nonce = req.Nonce]
                     ELSE req.SelectiveDisclosure[i]]
         IN  ServiceCreatePresentation(req.HolderDID, creds, disclosureRequests,
                                       randomNonces, id)

\* verifier.UseCase.verifySelectiveDisclosureProof: "" or the error; the BBS+
\* proof itself is not verified
verifySelectiveDisclosureProof(credMap, nonce) ==
    IF credMap.proof.type # "BbsBlsSignatureProof2020" THEN "invalid proof type"
    ELSE IF nonce # "" /\ credMap.proof.nonce # nonce THEN "nonce mismatch"
    ELSE ""

VerifyError(kind, index, claim) == [kind |-> kind, index |-> index, claim |-> claim]

\* the claims of a credential subject other than the subject id
ClaimsOf(credentialSubject) ==
    [k \in (DOMAIN credentialSubject) \ {"id"} |-> credentialSubject[k]]

\* a trusted-issuer check that lets every issuer pass
IssuerAlwaysTrusted(trustedIssuers, issuerStr) == TRUE

\* the trusted-issuer check of VerifyPresentation: an empty list trusts every
\* issuer
IssuerTrusted(trustedIssuers, issuerStr) ==
    \/ Len(trustedIssuers) = 0
    \/ \E j \in 1 .. Len(trustedIssuers) : trustedIssuers[j] = issuerStr

\* one iteration of the credential loop of VerifyPresentation
VerifyDisclosedCredential(result, credMap, i, req) ==
    LET withIssuer == [result EXCEPT !.IssuerDIDs = Append(@, credMap.issuer)]
    IN  IF ~IssuerTrusted(req.TrustedIssuers, credMap.issuer)
        THEN [withIssuer EXCEPT !.Valid = FALSE,
                                !.Errors = Append(@, VerifyError("issuer is not trusted", i, ""))]
        ELSE LET claims == ClaimsOf(credMap.credentialSubject)
                 withClaims ==
                     [withIssuer EXCEPT !.RevealedClaims =
                         [k \in (DOMAIN @) \cup (DOMAIN claims) |->
                             IF k \in DOMAIN claims THEN claims[k] ELSE @[k]]]
                 perr == verifySelectiveDisclosureProof(credMap, req.VerificationNonce)
             IN  IF perr # ""
                 THEN [withClaims EXCEPT !.Valid = FALSE,
                                         !.Errors = Append(@, VerifyError(perr, i, ""))]
                 ELSE withClaims

RECURSIVE VerifyCredentialLoop(_, _, _)
VerifyCredentialLoop(result, req, n) ==
    IF n = 0 THEN result
    ELSE VerifyDisclosedCredential(VerifyCredentialLoop(result, req, n - 1),
                                   req.Presentation.VerifiableCredential[n], n - 1, req)

\* a required-claims loop that reports nothing
CheckNoRequiredClaims(result, requiredClaims, n) == result

\* the required-claims loop of VerifyPresentation
RECURSIVE CheckRequiredClaims(_, _, _)
CheckRequiredClaims(result, requiredClaims, n) ==
    IF n = 0 THEN result
    ELSE LET before == CheckRequiredClaims(result, requiredClaims, n - 1)
         IN  IF requiredClaims[n] \notin DOMAIN before.RevealedClaims
             THEN [before EXCEPT !.Valid = FALSE,
                                 !.Errors = Append(@, VerifyError("required claim is missing",
                                                                  -1, requiredClaims[n]))]
             ELSE before

\* verifier.UseCase.VerifyPresentation: the result; the presentation is
\* stored exactly when the result is valid
VerifyPresentation(req) ==
    LET result == [Valid |-> TRUE, Errors |-> <<>>, RevealedClaims |-> EmptyMap,
                   HolderDID |-> req.Presentation.Holder, IssuerDIDs |-> <<>>]
    IN  IF ServiceVerifyPresentation(req.Presentation) # ""
        THEN [result EXCEPT !.Valid = FALSE,
                            !.Errors = Append(@, VerifyError("presentation verification failed",
                                                             -1, ""))]
        ELSE CheckRequiredClaims(
                 VerifyCredentialLoop(result, req, Len(req.Presentation.VerifiableCredential)),
                 req.RequiredClaims, Len(req.RequiredClaims))


(***************************************************************************)
(* Spec: calls of the use cases                                            *)
(***************************************************************************)
NoCall == [op |-> "none", err |-> "",
           issueReq |-> [IssuerDID |-> NoDID, SubjectDID |-> NoDID, Claims |-> <<>>],
           credential |-> NoCredential,
           replaced |-> NoCredential,   \* what Store found under the id it wrote
           verifierDID |-> NoDID,
           listed |-> {},               \* what ListVerifiedPresentations returned
           presReq |-> [HolderDID |-> NoDID, CredentialIDs |-> <<>>,
                        SelectiveDisclosure |-> <<>>, Nonce |-> ""],
           presentation |-> NoPresentation,
           verifyReq |-> [Presentation |-> NoPresentation, RequiredClaims |-> <<>>,
                          TrustedIssuers |-> <<>>, VerificationNonce |-> ""],
           result |-> NoResult]

\* inputs of the calls
CredentialIDs    == 1 .. (MaxIssued + 1)
AttributeLists   == { <<>>, <<"age">>, <<"age", "name">>, <<"age", "zip">> }
RequestNonces    == { "", "n1" }
DisclosureNonces == { "", "n2" }
RandomNonces     == { "r1", "r2" }
VerificationNonces == { "", "n1" }
RequiredClaimLists == { <<>>, <<"age">>, <<"age", "zip">> }
TrustedIssuerLists == { <<>>, <<IssuerDIDs[1]>>, <<IssuerDIDs[MaxIssuers + 1]>> }
DisclosureRequests ==
    [RevealedAttributes : AttributeLists, Nonce : DisclosureNonces]

RECURSIVE SeqsOfLen(_, _)
SeqsOfLen(S, n) ==
    IF n = 0 THEN { <<>> }
    ELSE { Append(q, x) : q \in SeqsOfLen(S, n - 1), x \in S }

\* what a credential can have become between issuer and holder
AlteredCredentials(c) ==
    { [c EXCEPT !.CredentialSubject = MapSet(@, "age", AlteredValue)],
      [c EXCEPT !.Issuer = IssuerDIDs[MaxIssuers + 1]],
      [c EXCEPT !.CredentialSubject = MapSet(@, "id", Holder2)],
      [c EXCEPT !.ID = MaxIssued + 1],
      [c EXCEPT !.Proof = NoVcProof] }

\* what a presentation can have become between holder and verifier
AlteredPresentations(vp) ==
    { [vp EXCEPT !.VerifiableCredential[i].credentialSubject = MapSet(@, "age", AlteredValue)] :
          i \in 1 .. Len(vp.VerifiableCredential) }
    \cup { [vp EXCEPT !.VerifiableCredential[i].issuer = IssuerDIDs[MaxIssuers + 1]] :
          i \in 1 .. Len(vp.VerifiableCredential) }
    \cup { [vp EXCEPT !.Proof = ""] }

\* A call that fails changes nothing but last: every continuation of it is a
\* continuation of the state before the call, and it is explored from there
\* only.
Continue ==
    /\ last.err = ""
    /\ last.op = "VerifyPresentation" => last.result.Valid
    /\ last.op # "ListVerifiedPresentations"

SetupIssuer ==
    /\ Continue
    /\ Cardinality(DOMAIN keyStore) < MaxIssuers
    /\ \E privateKey \in { k \in generateRandomScalar : k.v <= MaxKey } :
          LET issuerDID == IssuerDIDs[Cardinality(DOMAIN keyStore) + 1]
          IN  /\ keyStore' = MapSet(keyStore, issuerDID, GenerateKeyPair(privateKey))
              /\ last' = [NoCall EXCEPT !.op = "SetupIssuer", !.issueReq.IssuerDID = issuerDID]
    /\ UNCHANGED <<issued, credentials, presentation, presentations>>
    /\ UNCHANGED bbsVars
    /\ UNCHANGED reqVars
    /\ UNCHANGED extraVars

IssueCredential ==
    /\ Continue
    /\ Cardinality(issued) < MaxIssued
    /\ \E issuerDID \in IssuerDIDSet \cup {""}, subjectDID \in SubjectDIDs,
          claims \in ClaimLists :
          LET req == [IssuerDID |-> issuerDID, SubjectDID |-> subjectDID, Claims |-> claims]
              r   == IssuerIssueCredential(keyStore, req, Cardinality(issued) + 1)
          IN  /\ issued' = IF r.err = "" THEN issued \cup {r.credential} ELSE issued
              /\ last' = [NoCall EXCEPT !.op = "IssueCredential", !.err = r.err,
                                        !.issueReq = req, !.credential = r.credential]
    /\ UNCHANGED <<keyStore, credentials, presentation, presentations>>
    /\ UNCHANGED bbsVars
    /\ UNCHANGED reqVars
    /\ UNCHANGED extraVars

\* CredentialService.IssueCredential called on the service itself
ServiceIssueCredentialCall ==
    /\ Continue
    /\ Cardinality(issued) < MaxIssued
    /\ \E issuerDID \in IssuerDIDSet \cup {""}, subjectDID \in SubjectDIDs,
          claims \in ClaimLists :
          LET req == [IssuerDID |-> issuerDID, SubjectDID |-> subjectDID, Claims |-> claims]
              r   == ServiceIssueCredential(keyStore, issuerDID, subjectDID, claims,
                                            Cardinality(issued) + 1)
          IN  /\ issued' = IF r.err = "" THEN issued \cup {r.credential} ELSE issued
              /\ last' = [NoCall EXCEPT !.op = "ServiceIssueCredential", !.err = r.err,
                                        !.issueReq = req, !.credential = r.credential]
    /\ UNCHANGED <<keyStore, credentials, presentation, presentations>>
    /\ UNCHANGED bbsVars
    /\ UNCHANGED reqVars
    /\ UNCHANGED extraVars

\* a holder that stores every credential it is given, verified or not
StoreUnverified(repo, err, credential) ==
    IF credential = NoCredential THEN repo ELSE RepositoryStore(repo, credential)

\* the last step of holder.UseCase.StoreCredential: the repository is written
\* when the checks before it returned no error
StoreIfVerified(repo, err, credential) ==
    IF err = "" THEN RepositoryStore(repo, credential) ELSE repo

StoreCredential ==
    /\ Continue
    /\ \E c \in issued :
          \E credential \in {c, NoCredential} \cup AlteredCredentials(c) :
              LET err == HolderStoreCredential(credential)
              IN  /\ credentials' = StoreIfVerified(credentials, err, credential)
                  /\ last' = [NoCall EXCEPT !.op = "StoreCredential", !.err = err,
                                            !.credential = credential,
                                            !.replaced =
                                                IF err = "" /\ credential.ID \in DOMAIN credentials
                                                THEN credentials[credential.ID]
                                                ELSE NoCredential]
    /\ UNCHANGED <<keyStore, issued, presentation, presentations>>
    /\ UNCHANGED bbsVars
    /\ UNCHANGED reqVars
    /\ UNCHANGED extraVars

\* the disclosure requests drawn for a request: every list of the length of
\* ids, and the empty list; when the request fails whatever they are, one list
DisclosureDraws(holderDID, ids) ==
    IF holderDID = "" \/ Len(ids) = 0 \/ RetrieveAll(credentials, holderDID, ids, Len(ids)) # ""
    THEN { [i \in 1 .. Len(ids) |-> [RevealedAttributes |-> <<>>, Nonce |-> ""]] }
    ELSE SeqsOfLen(DisclosureRequests, Len(ids)) \cup { <<>> }

\* the outcomes of rand.Read, one per credential; where a nonce is given the
\* random source is not read
RandomDraws(nonce, sds) ==
    { f \in [1 .. Len(sds) -> RandomNonces] :
        \A i \in 1 .. Len(sds) : (nonce # "" \/ sds[i].Nonce # "") => f[i] = "r1" }

\* Holder.CreatePresentation for a request of at most maxCreds credential ids
CreatePresentationUpTo(maxCreds) ==
    /\ Continue
    /\ (1 .. MaxPres) \ (DOMAIN presentations) # {}
    /\ \E holderDID \in HolderDIDs \cup {""}, nonce \in RequestNonces,
          ids \in SeqsUpTo(CredentialIDs, maxCreds) :
          \E sds \in DisclosureDraws(holderDID, ids) :
            \E randomNonces \in RandomDraws(nonce, sds) :
              LET id  == CHOOSE x \in (1 .. MaxPres) \ (DOMAIN presentations) :
                             \A y \in (1 .. MaxPres) \ (DOMAIN presentations) : x <= y
                  req == [HolderDID |-> holderDID, CredentialIDs |-> ids,
                          SelectiveDisclosure |-> sds, Nonce |-> nonce]
                  r   == HolderCreatePresentation(credentials, req, randomNonces, id)
              IN  /\ presentation' = IF r.err = "" THEN r.presentation ELSE presentation
                  /\ last' = [NoCall EXCEPT !.op = "CreatePresentation", !.err = r.err,
                                            !.presReq = req, !.presentation = r.presentation]
    /\ UNCHANGED <<keyStore, issued, credentials, presentations>>
    /\ UNCHANGED bbsVars
    /\ UNCHANGED reqVars
    /\ UNCHANGED extraVars

CreatePresentation == CreatePresentationUpTo(MaxCreds)

\* Holder.CreatePresentation for requests of several credentials; one
\* presentation is built
CreatePresentationMany == presentation = NoPresentation /\ CreatePresentationUpTo(MaxCredsMany)

\* a verifier that stores every presentation it was asked to verify
StoreAlways(repo, result, vp) == RepositoryStore(repo, vp)

\* the last step of verifier.UseCase.VerifyPresentation: the presentation is
\* stored when the result is valid
StoreIfValid(repo, result, vp) ==
    IF result.Valid THEN RepositoryStore(repo, vp) ELSE repo

VerifyPresentationCall ==
    /\ Continue
    /\ presentation # NoPresentation
    /\ \E vp \in {presentation} \cup AlteredPresentations(presentation),
          requiredClaims \in RequiredClaimLists, trustedIssuers \in TrustedIssuerLists,
          verificationNonce \in VerificationNonces :
          LET req == [Presentation |-> vp, RequiredClaims |-> requiredClaims,
                      TrustedIssuers |-> trustedIssuers,
                      VerificationNonce |-> verificationNonce]
              result == VerifyPresentation(req)
          IN  /\ presentations' = StoreIfValid(presentations, result, vp)
              /\ last' = [NoCall EXCEPT !.op = "VerifyPresentation", !.verifyReq = req,
                                        !.result = result]
    /\ UNCHANGED <<keyStore, issued, credentials, presentation>>
    /\ UNCHANGED bbsVars
    /\ UNCHANGED reqVars
    /\ UNCHANGED extraVars

\* InMemoryPresentationRepository.List: the presentations of the holder, in
\* the order of a map iteration
RepositoryList(repo, holderDID) ==
    { repo[id] : id \in { x \in DOMAIN repo : repo[x].Holder = holderDID } }

\* verifier.UseCase.ListVerifiedPresentations
ListVerifiedPresentations(repo, verifierDID) == RepositoryList(repo, "")

VerifierDIDs == {"", "did:example:verifier"}

ListVerifiedPresentationsCall ==
    /\ Continue
    /\ \E verifierDID \in VerifierDIDs :
          last' = [NoCall EXCEPT !.op = "ListVerifiedPresentations",
                                 !.verifierDID = verifierDID,
                                 !.listed = ListVerifiedPresentations(presentations, verifierDID)]
    /\ UNCHANGED <<keyStore, issued, credentials, presentation, presentations>>
    /\ UNCHANGED bbsVars
    /\ UNCHANGED reqVars
    /\ UNCHANGED extraVars

\* verifier.UseCase.CreateVerificationRequest: the parameters returned
CreateVerificationRequestParams(params) ==
    IF params.VerificationNonce = ""
    THEN [params EXCEPT !.VerificationNonce =
              "verification-nonce-" \o ToString(Len(params.RequiredClaims))]
    ELSE params

CreateVerificationRequest ==
    /\ Len(requests) < MaxRequests
    /\ \E requiredClaims \in RequiredClaimLists, trustedIssuers \in TrustedIssuerLists,
          verificationNonce \in VerificationNonces :
          LET params == [RequiredClaims |-> requiredClaims, TrustedIssuers |-> trustedIssuers,
                         VerificationNonce |-> verificationNonce]
          IN  requests' = Append(requests, [given |-> params,
                                            returned |-> CreateVerificationRequestParams(params)])
    /\ UNCHANGED wfVars
    /\ UNCHANGED bbsVars
    /\ UNCHANGED extraVars

(***************************************************************************)
(* pkg/did: InMemoryRepository.  A document is a pointer; DocID is its ID  *)
(* field.                                                                  *)
(***************************************************************************)
NilDoc == 0
DidDocs == {1, 2, 3}
DIDs == {"did:test:1", "did:test:2"}
\* two documents of the first DID and one of the second
DocID(doc) == IF doc = 3 THEN "did:test:2" ELSE "did:test:1"

\* an Update that stores the document whether or not the DID exists
RepositoryUpsert(docs, did, doc) ==
    IF doc = NilDoc THEN [err |-> "panic: nil pointer dereference", documents |-> docs]
    ELSE [err |-> "", documents |-> MapSet(docs, did, doc)]

\* InMemoryRepository.Create
RepositoryCreate(docs, doc) ==
    IF doc = NilDoc THEN [err |-> "DID document is nil", documents |-> docs]
    ELSE [err |-> "", documents |-> MapSet(docs, DocID(doc), doc)]

\* InMemoryRepository.Resolve
RepositoryResolve(docs, did) ==
    IF did \notin DOMAIN docs THEN [err |-> "DID document not found", doc |-> NilDoc]
    ELSE [err |-> "", doc |-> docs[did]]

\* InMemoryRepository.Update; writing doc.Updated of a nil document panics
RepositoryUpdate(docs, did, doc) ==
    IF did \notin DOMAIN docs THEN [err |-> "DID document not found", documents |-> docs]
    ELSE IF doc = NilDoc THEN [err |-> "panic: nil pointer dereference", documents |-> docs]
    ELSE [err |-> "", documents |-> MapSet(docs, did, doc)]

\* InMemoryRepository.Deactivate: delete(r.documents, did)
RepositoryDeactivate(docs, did) == [x \in (DOMAIN docs) \ {did} |-> docs[x]]

DidCall(op, did, doc, err, result, after) ==
    [op |-> op, did |-> did, doc |-> doc, err |-> err, result |-> result,
     before |-> documents, after |-> after]

Create ==
    /\ Len(didLog) < MaxDidCalls
    /\ \E doc \in DidDocs \cup {NilDoc} :
          LET r == RepositoryCreate(documents, doc)
          IN  /\ documents' = r.documents
              /\ didLog' = Append(didLog, DidCall("Create", "", doc, r.err, NilDoc, r.documents))
    /\ UNCHANGED updated
    /\ UNCHANGED coreVars
    /\ UNCHANGED concVars
    /\ UNCHANGED pureVars

Resolve ==
    /\ Len(didLog) < MaxDidCalls
    /\ \E did \in DIDs :
          LET r == RepositoryResolve(documents, did)
          IN  didLog' = Append(didLog, DidCall("Resolve", did, NilDoc, r.err, r.doc, documents))
    /\ UNCHANGED <<documents, updated>>
    /\ UNCHANGED coreVars
    /\ UNCHANGED concVars
    /\ UNCHANGED pureVars

Update ==
    /\ Len(didLog) < MaxDidCalls
    /\ \E did \in DIDs, doc \in DidDocs \cup {NilDoc} :
          LET r == RepositoryUpdate(documents, did, doc)
          IN  /\ documents' = r.documents
              /\ updated' = IF r.err = "" THEN updated \cup {doc} ELSE updated
              /\ didLog' = Append(didLog, DidCall("Update", did, doc, r.err, NilDoc, r.documents))
    /\ UNCHANGED coreVars
    /\ UNCHANGED concVars
    /\ UNCHANGED pureVars

Deactivate ==
    /\ Len(didLog) < MaxDidCalls
    /\ \E did \in DIDs :
          /\ documents' = RepositoryDeactivate(documents, did)
          /\ didLog' = Append(didLog, DidCall("Deactivate", did, NilDoc, "", NilDoc,
                                              RepositoryDeactivate(documents, did)))
    /\ UNCHANGED updated
    /\ UNCHANGED coreVars
    /\ UNCHANGED concVars
    /\ UNCHANGED pureVars

(***************************************************************************)
(* Requests served concurrently (net/http runs each handler in its own     *)
(* goroutine) on one ServiceImpl.  An access of the keyStore map takes     *)
(* time: it begins and it ends.  The code takes no lock.  An access that   *)
(* overlaps a write is a data race; the Go runtime may stop the process    *)
(* ("fatal error: concurrent map writes"), and otherwise the access has    *)
(* any outcome.                                                            *)
(***************************************************************************)
Workers == 1 .. MaxWorkers
IdleWorker == [pc |-> "idle", did |-> NoDID, raced |-> FALSE, outcome |-> ""]

\* the other workers that are inside an access of the map
Accessing(t) == { u \in Workers \ {t} : workers[u].pc \in {"writing", "reading"} }
Writing(t)   == { u \in Workers \ {t} : workers[u].pc = "writing" }

\* SetupIssuer reaches SetIssuerKeyPair: s.keyStore[issuerDID] = keyPair begins
BeginSetIssuerKeyPair(t) ==
    /\ ~crashed
    /\ workers[t].pc = "idle"
    /\ \E did \in IssuerDIDSet :
          workers' = [u \in Workers |->
                         IF u = t THEN [pc |-> "writing", did |-> did,
                                        raced |-> Accessing(t) # {}, outcome |-> ""]
                         ELSE IF u \in Accessing(t) THEN [workers[u] EXCEPT !.raced = TRUE]
                         ELSE workers[u]]
    /\ UNCHANGED <<crashed, wfVars, bbsVars, reqVars, didVars, pureVars>>

\* the map assignment ends
EndSetIssuerKeyPair(t) ==
    /\ ~crashed
    /\ workers[t].pc = "writing"
    /\ \E privateKey \in { k \in generateRandomScalar : k.v <= MaxKey },
          outcome \in IF workers[t].raced
                      THEN {"stored", "lost", "fatal error: concurrent map writes"}
                      ELSE {"stored"} :
          /\ keyStore' = IF outcome = "stored"
                         THEN MapSet(keyStore, workers[t].did, GenerateKeyPair(privateKey))
                         ELSE keyStore
          /\ crashed' = (outcome \notin {"stored", "lost"})
          /\ workers' = [workers EXCEPT ![t] = [pc |-> "idle", did |-> workers[t].did,
                                                raced |-> FALSE, outcome |-> outcome]]
    /\ UNCHANGED <<issued, credentials, presentation, presentations, last>>
    /\ UNCHANGED <<bbsVars, reqVars, didVars, pureVars>>

\* IssueCredential reaches keyPair, exists := s.keyStore[issuerDID]
BeginKeyStoreLookup(t) ==
    /\ ~crashed
    /\ workers[t].pc = "idle"
    /\ \E did \in IssuerDIDSet :
          workers' = [u \in Workers |->
                         IF u = t THEN [pc |-> "reading", did |-> did,
                                        raced |-> Writing(t) # {}, outcome |-> ""]
                         ELSE IF u \in Writing(t) THEN [workers[u] EXCEPT !.raced = TRUE]
                         ELSE workers[u]]
    /\ UNCHANGED <<crashed, wfVars, bbsVars, reqVars, didVars, pureVars>>

\* the map read ends
EndKeyStoreLookup(t) ==
    /\ ~crashed
    /\ workers[t].pc = "reading"
    /\ \E outcome \in IF workers[t].raced
                      THEN {"found", "not found",
                            "fatal error: concurrent map read and map write"}
                      ELSE {IF workers[t].did \in DOMAIN keyStore
                            THEN "found" ELSE "not found"} :
          /\ crashed' = (outcome \notin {"found", "not found"})
          /\ workers' = [workers EXCEPT ![t] = [pc |-> "idle", did |-> workers[t].did,
                                                raced |-> FALSE, outcome |-> outcome]]
    /\ UNCHANGED <<wfVars, bbsVars, reqVars, didVars, pureVars>>

(***************************************************************************)
(* Provider factory and its test endpoint: pkg/bbs/factory.go,             *)
(* pkg/bbs/interface.go, interfaces/http/handlers/bbs_handler.go.          *)
(* An error is the sequence of its message parts, nil is <<>>; fmt.Errorf  *)
(* with %w puts its own part in front.                                     *)
(***************************************************************************)
ProviderSimple     == "simple"
ProviderAries      == "aries"
ProviderProduction == "production"

\* strings.ToLower on the provider names a request carries
ProviderNames == {"simple", "Simple", "production", "PRODUCTION", "aries", "other", ""}
ToLower(str) ==
    CASE str = "Simple"     -> "simple"
      [] str = "PRODUCTION" -> "production"
      [] OTHER              -> str

ParseProvider(str) ==
    LET provider == ToLower(str)
    IN  IF provider \in {ProviderSimple, ProviderAries, ProviderProduction}
        THEN [provider |-> provider, err |-> <<>>]
        ELSE [provider |-> "", err |-> <<"unknown provider", str>>]

\* Config and AriesConfig; durations in seconds
NilConfig == [nil |-> TRUE]
NilAriesConfig == [nil |-> TRUE]
AriesConfigs ==
    [nil : {FALSE},
     KMSType : {"local", "remote", "other"},
     StorageProvider : {"mem", "leveldb", "other"},
     RemoteKMSURL : {"", "https://kms"}]
OperationTimeouts == {-1, 0, 30}
Configs ==
    [nil : {FALSE},
     Provider : {"", ProviderSimple, ProviderAries, ProviderProduction},
     OperationTimeout : OperationTimeouts,
     ConstantTimeOps : BOOLEAN,
     AriesConfig : {NilAriesConfig} \cup AriesConfigs]

DefaultConfig ==
    [nil |-> FALSE,
     Provider |-> ProviderProduction,
     OperationTimeout |-> 30,
     ConstantTimeOps |-> TRUE,
     AriesConfig |-> [nil |-> FALSE, KMSType |-> "local", StorageProvider |-> "mem",
                      RemoteKMSURL |-> ""]]

\* &bbs.Config{Provider: provider}: every other field has its zero value
ZeroConfig(provider) ==
    [nil |-> FALSE,
     Provider |-> provider,
     OperationTimeout |-> 0,
     ConstantTimeOps |-> FALSE,
     AriesConfig |-> NilAriesConfig]

validateAriesConfig(ariesConfig) ==
    IF ariesConfig.nil THEN <<"aries config is required for aries provider">>
    ELSE IF ariesConfig.KMSType \notin {"local", "remote"}
         THEN <<"invalid KMS type", ariesConfig.KMSType>>
    ELSE IF ariesConfig.StorageProvider \notin {"mem", "leveldb"}
         THEN <<"invalid storage provider", ariesConfig.StorageProvider>>
    ELSE IF ariesConfig.KMSType = "remote" /\ ariesConfig.RemoteKMSURL = ""
         THEN <<"remote KMS URL is required for remote KMS type">>
    ELSE <<>>

ValidateConfig(provider, config) ==
    IF config.nil THEN <<"config cannot be nil">>
    ELSE IF config.OperationTimeout <= 0 THEN <<"operation timeout must be positive">>
    ELSE CASE provider = ProviderSimple     -> <<>>
           [] provider = ProviderProduction -> <<>>
           [] provider = ProviderAries      -> validateAriesConfig(config.AriesConfig)
           [] OTHER                         -> <<"unknown provider", provider>>

\* the service is represented by the provider it implements; "" is nil
CreateService(provider, given) ==
    LET config == IF given.nil THEN DefaultConfig ELSE given
        err    == ValidateConfig(provider, config)
    IN  IF err # <<>>
        THEN [service |-> "", err |-> <<"invalid config for provider", provider>> \o err]
        ELSE IF provider \in {ProviderSimple, ProviderProduction, ProviderAries}
             THEN [service |-> provider, err |-> <<>>]
             ELSE [service |-> "", err |-> <<"unsupported provider", provider>>]

\* what GenerateKeyPair of a service can return: SimpleService fills fixed
\* bytes, the others read crypto/rand, which can fail
RandFailure == <<"failed to generate private key", "rand.Read">>
KeyGenErrors(service) ==
    IF service = ProviderSimple THEN {<<>>} ELSE {<<>>, RandFailure}

testSingleProvider(provider, keyErr) ==
    LET created == CreateService(provider, ZeroConfig(provider))
    IN  IF created.err # <<>>
        THEN [Provider |-> provider, Available |-> FALSE,
              Message |-> <<"Failed to create service">> \o created.err]
        ELSE IF keyErr # <<>>
             THEN [Provider |-> provider, Available |-> FALSE,
                   Message |-> <<"Key generation failed">> \o keyErr]
             ELSE [Provider |-> provider, Available |-> TRUE,
                   Message |-> <<"Provider is working correctly">>]

NoResponse == [Provider |-> "", Available |-> FALSE, Message |-> <<>>]
NoProviderCall ==
    [op |-> "", method |-> "", name |-> "", provider |-> "", config |-> NilConfig,
     keyErr |-> <<>>, status |-> 0, response |-> NoResponse, service |-> "", err |-> <<>>]

HttpMethods == {"POST", "GET", "OPTIONS"}
\* a request body that is not JSON
BadBody == "{"

\* POST /api/bbs/test
TestProvider ==
    \E method \in HttpMethods, name \in ProviderNames \cup {BadBody} :
      \E keyErr \in KeyGenErrors(ParseProvider(name).provider) :
        LET parsed == ParseProvider(name)
            call   == [NoProviderCall EXCEPT !.op = "TestProvider", !.method = method,
                                             !.name = name, !.keyErr = keyErr]
        IN  /\ providerLast' =
                  IF method = "OPTIONS" THEN [call EXCEPT !.status = 200]
                  ELSE IF method # "POST"
                       THEN [call EXCEPT !.status = 405, !.err = <<"Method not allowed">>]
                  ELSE IF name = BadBody
                       THEN [call EXCEPT !.status = 400, !.err = <<"Invalid request body">>]
                  ELSE IF parsed.err # <<>>
                       THEN [call EXCEPT !.status = 400,
                                         !.err = <<"Invalid provider">> \o parsed.err]
                  ELSE [call EXCEPT !.status = 200,
                                    !.provider = parsed.provider,
                                    !.config = ZeroConfig(parsed.provider),
                                    !.response = testSingleProvider(parsed.provider, keyErr)]
            /\ UNCHANGED ageLast
            /\ UNCHANGED coreVars
            /\ UNCHANGED didVars
            /\ UNCHANGED concVars

\* DefaultFactory.CreateService, called with any provider and configuration
CreateServiceCall ==
    \E provider \in {ProviderSimple, ProviderAries, ProviderProduction, "other"},
       config \in {NilConfig} \cup Configs :
        LET created == CreateService(provider, config)
        IN  /\ providerLast' = [NoProviderCall EXCEPT !.op = "CreateService",
                                                      !.provider = provider,
                                                      !.config = config,
                                                      !.service = created.service,
                                                      !.err = created.err]
            /\ UNCHANGED ageLast
            /\ UNCHANGED coreVars
            /\ UNCHANGED didVars
            /\ UNCHANGED concVars

(***************************************************************************)
(* Age claims: calculateAge in cmd/demo/main.go and in                     *)
(* interfaces/http/handlers/age_verification_handler.go.  A date string    *)
(* "YYYY-MM-DD" is the record of its three numbers; time.Parse accepts it  *)
(* when the day exists in that month of that year.                         *)
(***************************************************************************)
FirstBirthYear == 2000
MaxBirthYears  == 3
FirstNowYear   == 2013
MaxNowYears    == 3
MaxMonth       == 3

BirthYears == FirstBirthYear .. (FirstBirthYear + MaxBirthYears)
NowYears   == FirstNowYear .. (FirstNowYear + MaxNowYears)
Months     == 1 .. MaxMonth

\* package time: isLeap, daysIn, Time.YearDay
isLeap(year) == year % 4 = 0 /\ (year % 100 # 0 \/ year % 400 = 0)
daysIn(month, year) ==
    IF month = 2 THEN (IF isLeap(year) THEN 29 ELSE 28)
    ELSE IF month \in {4, 6, 9, 11} THEN 30 ELSE 31
RECURSIVE daysBefore(_)
daysBefore(month) ==
    IF month = 1 THEN 0 ELSE daysBefore(month - 1) + daysIn(month - 1, 1)
YearDay(t) ==
    daysBefore(t.month) + t.day + (IF t.month > 2 /\ isLeap(t.year) THEN 1 ELSE 0)

\* the date strings a request can carry, and the dates the clock can show
DateStrings == [year : BirthYears, month : Months, day : 1 .. 31]
Dates(years) ==
    { t \in [year : years, month : Months, day : 1 .. 31] : t.day <= daysIn(t.month, t.year) }

\* time.Parse("2006-01-02", str)
TimeParse(str) ==
    IF str.day <= daysIn(str.month, str.year)
    THEN [time |-> str, err |-> ""]
    ELSE [time |-> [year |-> 1, month |-> 1, day |-> 1], err |-> "day out of range"]

\* age_verification_handler.go
calculateAge(birthTime, now) ==
    LET age == now.year - birthTime.year
    IN  IF YearDay(now) < YearDay(birthTime) THEN age - 1 ELSE age

\* cmd/demo/main.go
calculateAgeOfString(dateOfBirth, now) ==
    LET parsed == TimeParse(dateOfBirth)
    IN  IF parsed.err # "" THEN 0 ELSE calculateAge(parsed.time, now)

\* the N of the ageOverN claims
AgeThresholds == {13, 16, 18, 21, 25, 65}
NoAgeOver == [N \in AgeThresholds |-> FALSE]
NoAgeCall ==
    [op |-> "", dateOfBirth |-> [year |-> 1, month |-> 1, day |-> 1],
     now |-> [year |-> 1, month |-> 1, day |-> 1],
     err |-> "", age |-> 0, ageOver |-> NoAgeOver]

\* a request waiting to be served: the date string it carries and the date
\* the clock shows when it is served
AgeInputs ==
    { [NoAgeCall EXCEPT !.op = "request", !.dateOfBirth = dateOfBirth, !.now = now] :
          dateOfBirth \in DateStrings, now \in Dates(NowYears) }

\* POST /api/age-verification/credential, as far as the age claims go
IssueAgeCredential ==
    /\ ageLast.op = "request"
    /\ LET parsed     == TimeParse(ageLast.dateOfBirth)
           currentAge == calculateAge(parsed.time, ageLast.now)
           call       == [ageLast EXCEPT !.op = "IssueAgeCredential"]
       IN  ageLast' =
               IF parsed.err # ""
               THEN [call EXCEPT !.err = "Invalid date format. Use YYYY-MM-DD"]
               ELSE [call EXCEPT !.age = currentAge,
                                 !.ageOver = [N \in AgeThresholds |-> currentAge >= N]]
    /\ UNCHANGED providerLast
    /\ UNCHANGED coreVars
    /\ UNCHANGED didVars
    /\ UNCHANGED concVars

\* the demo's age of a date of birth
DemoCalculateAge ==
    /\ ageLast.op = "request"
    /\ ageLast' = [ageLast EXCEPT !.op = "calculateAge",
                                  !.age = calculateAgeOfString(ageLast.dateOfBirth,
                                                               ageLast.now)]
    /\ UNCHANGED providerLast
    /\ UNCHANGED coreVars
    /\ UNCHANGED didVars
    /\ UNCHANGED concVars

(***************************************************************************)
(* Specifications                                                          *)
(***************************************************************************)
InitBBS ==
    /\ keyPair = NoKeyPair
    /\ signed = NoSigned
    /\ proofMade = NoProofMade
    /\ bbsLast = NoBbsCall

InitWorkflow ==
    /\ keyStore = EmptyMap
    /\ issued = {}
    /\ credentials = EmptyMap
    /\ presentation = NoPresentation
    /\ presentations = EmptyMap
    /\ last = NoCall

InitRequests == requests = <<>>

InitDID ==
    /\ documents = EmptyMap
    /\ updated = {}
    /\ didLog = <<>>

InitConcurrent ==
    /\ workers = [t \in Workers |-> IdleWorker]
    /\ crashed = FALSE

InitProvider == providerLast = NoProviderCall

InitAge == ageLast = NoAgeCall

Init == InitBBS /\ InitWorkflow /\ InitRequests /\ InitDID /\ InitConcurrent
            /\ InitProvider /\ InitAge

Next ==
    \/ SetupIssuer
    \/ IssueCredential
    \/ StoreCredential
    \/ CreatePresentation
    \/ VerifyPresentationCall

Spec == Init /\ [][Next]_vars

\* the issuer and the holder, without the verifier
NextHolder ==
    \/ SetupIssuer
    \/ IssueCredential
    \/ StoreCredential
    \/ CreatePresentationMany

SpecHolder == Init /\ [][NextHolder]_vars

\* credentials issued by the credential service itself, stored and presented
NextService ==
    \/ SetupIssuer
    \/ ServiceIssueCredentialCall
    \/ StoreCredential
    \/ CreatePresentation

SpecService == Init /\ [][NextService]_vars

\* the workflow with the verifier listing what it verified
NextVerifier ==
    \/ SetupIssuer
    \/ IssueCredential
    \/ StoreCredential
    \/ CreatePresentation
    \/ VerifyPresentationCall
    \/ ListVerifiedPresentationsCall

SpecVerifier == Init /\ [][NextVerifier]_vars

\* calls on the in-memory DID repository
NextDID ==
    \/ Create
    \/ Resolve
    \/ Update
    \/ Deactivate

SpecDID == Init /\ [][NextDID]_vars

\* SetupIssuer and IssueCredential requests served concurrently
NextConcurrent ==
    \E t \in Workers :
        \/ BeginSetIssuerKeyPair(t)
        \/ EndSetIssuerKeyPair(t)
        \/ BeginKeyStoreLookup(t)
        \/ EndKeyStoreLookup(t)

SpecConcurrent == Init /\ [][NextConcurrent]_vars

\* the provider factory and the endpoint that tests a provider
NextProvider ==
    \/ TestProvider
    \/ CreateServiceCall

SpecProvider == Init /\ [][NextProvider]_vars

\* the age computations
NextAge ==
    \/ IssueAgeCredential
    \/ DemoCalculateAge

\* the requests to serve are drawn at the start
InitAgeInputs ==
    /\ InitBBS /\ InitWorkflow /\ InitRequests /\ InitDID /\ InitConcurrent
    /\ InitProvider
    /\ ageLast \in AgeInputs

SpecAge == InitAgeInputs /\ [][NextAge]_vars

\* the verifier making verification requests
NextRequests == CreateVerificationRequest

SpecRequests == Init /\ [][NextRequests]_vars

\* VerifyProof of the proof that CreateProof returned with another revealed
\* index list of the same length in it, given the messages and the nonce the
\* proof was made for
BVerifyProofIndices ==
    /\ proofMade.done
    /\ BbsContinue
    /\ \E revealedIndices \in { l \in IndexLists :
                                  /\ Len(l) = Len(proofMade.revealedIndices)
                                  /\ l # proofMade.revealedIndices } :
          LET proof == [proofMade.proof EXCEPT !.RevealedAttributes = revealedIndices]
              revealedMessages == RevealedOf(signed.messages, proofMade.revealedIndices)
          IN  bbsLast' = [NoBbsCall EXCEPT !.op = "VerifyProof",
                                           !.publicKey = keyPair.PublicKey,
                                           !.messages = revealedMessages,
                                           !.nonce = proofMade.nonce,
                                           !.proof = proof,
                                           !.err = VerifyProof(keyPair.PublicKey, proof,
                                                               revealedMessages,
                                                               proofMade.nonce)]
    /\ UNCHANGED <<keyPair, signed, proofMade>>
    /\ UNCHANGED wfVars
    /\ UNCHANGED reqVars
    /\ UNCHANGED extraVars

\* DecodeProof(EncodeProof(proof)) for the proof that CreateProof returned
BEncodeDecodeProof ==
    /\ proofMade.done
    /\ BbsContinue
    /\ LET r == DecodeProof(EncodeProof(proofMade.proof))
       IN  bbsLast' = [NoBbsCall EXCEPT !.op = "DecodeProof", !.proof = proofMade.proof,
                                        !.decoded = r.proof, !.err = r.err]
    /\ UNCHANGED <<keyPair, signed, proofMade>>
    /\ UNCHANGED wfVars
    /\ UNCHANGED reqVars
    /\ UNCHANGED extraVars

\* bytes added after the nonce of an encoded proof (cut off, when negative)
TrailingBytes == {-1, 1, MaxTrailing}

\* the encoded proof with bytes added at its end, or cut off
ProofInput(proof, trailing) ==
    LET data == ProofData(proof)
    IN  Base64Encode(IF trailing < 0 THEN SubSeq(data, 1, Len(data) + trailing)
                     ELSE data \o PlainBytes([i \in 1 .. trailing |-> 0]))

\* DecodeProof of an input that is longer or shorter than the encoded proof
BDecodeProofInput ==
    /\ proofMade.done
    /\ BbsContinue
    /\ \E trailing \in TrailingBytes :
          LET r == DecodeProof(ProofInput(proofMade.proof, trailing))
          IN  bbsLast' = [NoBbsCall EXCEPT !.op = "DecodeProofInput",
                                           !.proof = proofMade.proof, !.trailing = trailing,
                                           !.decoded = r.proof, !.err = r.err]
    /\ UNCHANGED <<keyPair, signed, proofMade>>
    /\ UNCHANGED wfVars
    /\ UNCHANGED reqVars
    /\ UNCHANGED extraVars

NextBBS ==
    \/ BGenerateKeyPair
    \/ BValidateKeyPair
    \/ BSign
    \/ BVerify
    \/ BCreateProof
    \/ BVerifyProof
    \/ BVerifyProofIndices
    \/ BEncodeDecodeProof
    \/ BDecodeProofInput

SpecBBS == Init /\ [][NextBBS]_vars

(***************************************************************************)
(* Properties of the credential workflow (Spec)                            *)
(***************************************************************************)
Range(q) == { q[i] : i \in 1 .. Len(q) }

\* the last call was VerifyPresentation; what it was given and what it returned
VerifyCalled    == last.op = "VerifyPresentation"
Disclosed       == last.verifyReq.Presentation.VerifiableCredential
Reported(e)     == \E j \in 1 .. Len(last.result.Errors) : last.result.Errors[j] = e
\* the presentation carries a proof, so the credentials are looked at
HasProof        == last.verifyReq.Presentation.Proof # ""
\* the issuer of disclosed credential i is in the trusted list, or the list is empty
PassesTrust(i)  ==
    last.verifyReq.TrustedIssuers = <<>> \/ Disclosed[i].issuer \in Range(last.verifyReq.TrustedIssuers)
\* the claim names disclosed credential i reveals
NamesAt(i)      == (DOMAIN Disclosed[i].credentialSubject) \ {"id"}
\* the presentation verified is the one the holder built, unchanged
OwnPresentation == last.verifyReq.Presentation = presentation

\* a disclosed credential agrees with a credential that was issued: same id
\* and issuer, and every value it shows is the issued one
Genuine(d) ==
    \E c \in issued :
        /\ c.ID = d.id
        /\ c.Issuer = d.issuer
        /\ \A k \in DOMAIN d.credentialSubject :
              k \in DOMAIN c.CredentialSubject /\ c.CredentialSubject[k] = d.credentialSubject[k]

\* C1: VerifyPresentation returns valid=true only if every disclosed credential
\* carries claims its declared issuer signed: a credential never issued by the
\* declared issuer, or with a value changed after CreatePresentation, makes the
\* result invalid.
C1_ValidOnlyIfProofVerifies ==
    (VerifyCalled /\ last.result.Valid) => \A i \in 1 .. Len(Disclosed) : Genuine(Disclosed[i])

\* a presentation whose claim value was changed after CreatePresentation was
\* reported valid and stored
C1_TamperedAccepted ==
    /\ VerifyCalled
    /\ last.result.Valid
    /\ \A i \in 1 .. Len(presentation.VerifiableCredential) :
          Genuine(presentation.VerifiableCredential[i])
    /\ \E i \in 1 .. Len(Disclosed) :
          /\ "age" \in DOMAIN Disclosed[i].credentialSubject
          /\ Disclosed[i].credentialSubject["age"] = AlteredValue
    /\ last.verifyReq.Presentation.ID \in DOMAIN presentations
    /\ presentations[last.verifyReq.Presentation.ID] = last.verifyReq.Presentation

\* CreatePresentation returned a presentation: each derived credential shows
\* the subject id and exactly the stored credential's claims that were
\* requested, with their values
DisclosesRequested ==
    (last.op = "CreatePresentation" /\ last.err = "") =>
        \A i \in 1 .. Len(last.presentation.VerifiableCredential) :
            LET d == last.presentation.VerifiableCredential[i].credentialSubject
                c == credentials[last.presReq.CredentialIDs[i]].CredentialSubject
                S == Range(last.presReq.SelectiveDisclosure[i].RevealedAttributes)
            IN  /\ DOMAIN d = (S \cup {"id"}) \cap DOMAIN c
                /\ \A k \in DOMAIN d : d[k] = c[k]

\* C2 as stated: the presentation discloses, besides the subject id, exactly
\* the requested claims of each credential, and the revealed-claims map of
\* VerifyPresentation has exactly those names as keys.
C2_RevealedExactlyRequested ==
    /\ DisclosesRequested
    /\ (VerifyCalled /\ OwnPresentation) =>
          DOMAIN last.result.RevealedClaims = UNION { NamesAt(i) : i \in 1 .. Len(Disclosed) }

\* C2, amended: the presentation discloses, besides the subject id, exactly the
\* requested claims of each credential; the revealed-claims map of
\* VerifyPresentation has as keys exactly the names disclosed by the
\* credentials whose issuer passes the trusted-issuer check, with the
\* disclosed values, and is empty when the presentation carries no proof.
C2_RevealedOnlyRequested ==
    /\ DisclosesRequested
    /\ (VerifyCalled /\ OwnPresentation) =>
          LET shown == { i \in 1 .. Len(Disclosed) : HasProof /\ PassesTrust(i) }
          IN  /\ DOMAIN last.result.RevealedClaims = UNION { NamesAt(i) : i \in shown }
              /\ \A k \in DOMAIN last.result.RevealedClaims :
                    \E i \in shown : /\ k \in NamesAt(i)
                                     /\ last.result.RevealedClaims[k] = Disclosed[i].credentialSubject[k]

\* a presentation that reveals one of the two claims of its credential was
\* verified and the result shows that claim alone
C2_PartialDisclosureVerified ==
    /\ VerifyCalled
    /\ OwnPresentation
    /\ last.result.Valid
    /\ DOMAIN last.result.RevealedClaims = {"age"}
    /\ \E id \in DOMAIN credentials :
          /\ id = Disclosed[1].id
          /\ DOMAIN credentials[id].CredentialSubject = {"id", "age", "name"}

\* C3 as stated: with a non-empty trusted list and a disclosed credential
\* whose issuer is not in it, the result is invalid and carries an
\* untrusted-issuer error for that credential, whatever else the presentation
\* contains; with an empty list no such error is reported.
C3_UntrustedIssuerReported ==
    VerifyCalled =>
        \A i \in 1 .. Len(Disclosed) :
            IF PassesTrust(i)
            THEN ~Reported(VerifyError("issuer is not trusted", i - 1, ""))
            ELSE ~last.result.Valid /\ Reported(VerifyError("issuer is not trusted", i - 1, ""))

\* C3, amended: with a non-empty trusted list and a disclosed credential whose
\* issuer is not in it, the result is invalid, and it carries an
\* untrusted-issuer error for that credential when the presentation carries a
\* proof; a credential that passes the check, and any credential under an
\* empty list, gets no such error.
C3_UntrustedIssuerRejected ==
    VerifyCalled =>
        \A i \in 1 .. Len(Disclosed) :
            IF PassesTrust(i)
            THEN ~Reported(VerifyError("issuer is not trusted", i - 1, ""))
            ELSE /\ ~last.result.Valid
                 /\ Reported(VerifyError("issuer is not trusted", i - 1, "")) <=> HasProof

\* the holder's own presentation, with the expected nonce and no required
\* claim, was rejected for its issuer alone
C3_UntrustedIssuerAlone ==
    /\ VerifyCalled
    /\ OwnPresentation
    /\ last.verifyReq.TrustedIssuers # <<>>
    /\ ~PassesTrust(1)
    /\ last.verifyReq.VerificationNonce = Disclosed[1].proof.nonce
    /\ last.verifyReq.RequiredClaims = <<>>
    /\ ~last.result.Valid
    /\ last.result.Errors = << VerifyError("issuer is not trusted", 0, "") >>

C5_NonceMismatchRejected ==
    (VerifyCalled /\ OwnPresentation) =>
        \A i \in 1 .. Len(Disclosed) :
            Disclosed[i].proof.nonce # last.verifyReq.VerificationNonce =>
                ~last.result.Valid /\ Reported(VerifyError("nonce mismatch", i - 1, ""))

\* the holder's presentation, made with a nonce, was verified with the empty
\* expected nonce and reported valid
C5_EmptyNonceAccepted ==
    /\ VerifyCalled
    /\ OwnPresentation
    /\ last.verifyReq.VerificationNonce = ""
    /\ Disclosed[1].proof.nonce = "n1"
    /\ last.result.Valid

\* C6: StoreCredential stores a credential only if its signature verifies:
\* the credential stored is one that was issued, unaltered, and an altered one
\* is rejected and not written.
C6_StoreOnlyVerified ==
    /\ (last.op = "StoreCredential" /\ last.err = "") => last.credential \in issued
    /\ \A id \in DOMAIN credentials : credentials[id] \in issued

\* a credential whose claim value was changed after issuance was stored
C6_AlteredStored ==
    /\ last.op = "StoreCredential"
    /\ last.err = ""
    /\ last.credential \notin issued
    /\ last.credential.CredentialSubject["age"] = AlteredValue
    /\ last.credential.ID \in DOMAIN credentials
    /\ credentials[last.credential.ID] = last.credential

\* C11: in every step, IssueCredential for issuer DID d returns a credential
\* only if d had a key pair in the key store before the call; for a DID with
\* no key pair it returns an error and no credential, and nothing is issued.
C11_IssueOnlyRegistered ==
    [][IssueCredential =>
          IF last'.issueReq.IssuerDID \in DOMAIN keyStore
          THEN last'.err = "" => last'.credential \in issued'
          ELSE last'.err # "" /\ last'.credential = NoCredential /\ issued' = issued]_vars

\* a complete issuance request for the DID that SetupIssuer allocates was
\* refused before SetupIssuer had run
C11_RefusedBeforeSetup ==
    /\ last.op = "IssueCredential"
    /\ last.issueReq.IssuerDID = IssuerDIDs[1]
    /\ last.issueReq.SubjectDID # ""
    /\ last.issueReq.Claims # <<>>
    /\ keyStore = EmptyMap
    /\ last.err = "no key pair found for issuer DID"
    /\ last.credential = NoCredential

\* the last call was CreatePresentation, for stored credentials and with one
\* disclosure request for each; credential i is asked to reveal a name
RequestsAttribute(i, a) ==
    /\ last.op = "CreatePresentation"
    /\ Len(last.presReq.CredentialIDs) = Len(last.presReq.SelectiveDisclosure)
    /\ i \in 1 .. Len(last.presReq.CredentialIDs)
    /\ last.presReq.CredentialIDs[i] \in DOMAIN credentials
    /\ a \in Range(last.presReq.SelectiveDisclosure[i].RevealedAttributes)

\* C12: CreatePresentation fails, and returns no presentation, whenever a
\* requested attribute name is not a claim of the corresponding stored
\* credential.
C12_UnknownAttributeFails ==
    \A i \in 1 .. MaxCreds, a \in {"age", "name", "zip"} :
        (RequestsAttribute(i, a)
            /\ a \notin DOMAIN credentials[last.presReq.CredentialIDs[i]].CredentialSubject)
        => (last.err # "" /\ last.presentation = NoPresentation)

\* a request to reveal "zip", which the stored credential does not have, was
\* answered with a presentation that leaves the name out
C12_UnknownAttributeIgnored ==
    /\ RequestsAttribute(1, "zip")
    /\ "zip" \notin DOMAIN credentials[last.presReq.CredentialIDs[1]].CredentialSubject
    /\ last.err = ""
    /\ last.presentation = presentation
    /\ "zip" \notin DOMAIN presentation.VerifiableCredential[1].credentialSubject

\* C13: in every presentation CreatePresentation returns, all disclosed
\* credentials carry the same proof nonce, whatever nonces the request gives.
C13_SameNonce ==
    (last.op = "CreatePresentation" /\ last.err = "") =>
        \A i, j \in 1 .. Len(last.presentation.VerifiableCredential) :
            last.presentation.VerifiableCredential[i].proof.nonce
                = last.presentation.VerifiableCredential[j].proof.nonce

\* a request without any nonce was answered with a presentation of two
\* credentials that carry two different random nonces
C13_TwoRandomNonces ==
    /\ last.op = "CreatePresentation"
    /\ last.err = ""
    /\ last.presReq.Nonce = ""
    /\ Len(last.presentation.VerifiableCredential) = 2
    /\ \A i \in 1 .. 2 : last.presReq.SelectiveDisclosure[i].Nonce = ""
    /\ last.presentation.VerifiableCredential[1].proof.nonce = "r1"
    /\ last.presentation.VerifiableCredential[2].proof.nonce = "r2"

\* C14: no two calls of CreateVerificationRequest that are not given a nonce
\* return the same nonce.
C14_FreshNonce ==
    \A i, j \in 1 .. Len(requests) :
        (i # j /\ requests[i].given.VerificationNonce = ""
               /\ requests[j].given.VerificationNonce = "")
        => requests[i].returned.VerificationNonce # requests[j].returned.VerificationNonce

\* two calls without a nonce, for different trusted issuers and the same
\* number of required claims, returned the same nonce
C14_SameNonceTwice ==
    /\ Len(requests) = 2
    /\ requests[1].given.VerificationNonce = ""
    /\ requests[2].given.VerificationNonce = ""
    /\ requests[1].given.TrustedIssuers # requests[2].given.TrustedIssuers
    /\ requests[1].returned.VerificationNonce = "verification-nonce-1"
    /\ requests[2].returned.VerificationNonce = "verification-nonce-1"

\* the claims of a credential: the entries of its subject other than the id
\* that IssueCredential writes first
ClaimKeys(c) == (DOMAIN c.CredentialSubject) \ {"id"}

\* C16: issuance with an empty claim list fails with an error, and every
\* credential issued has at least one claim.
C16_EmptyClaimsRefused ==
    /\ (last.op \in {"IssueCredential", "ServiceIssueCredential"}
           /\ last.issueReq.Claims = <<>>)
       => (last.err # "" /\ last.credential = NoCredential)
    /\ \A c \in issued : c.Proof.RevealedAttributes # <<>>

\* the credential service, called with a registered issuer and no claims,
\* returned a credential whose subject holds the id only
C16_IssuedWithoutClaims ==
    /\ last.op = "ServiceIssueCredential"
    /\ last.issueReq.IssuerDID \in DOMAIN keyStore
    /\ last.issueReq.Claims = <<>>
    /\ last.err = ""
    /\ last.credential \in issued
    /\ ClaimKeys(last.credential) = {}
    /\ last.credential.Proof.RevealedAttributes = <<>>

\* C17: a credential stored under an id stays retrievable under that id,
\* unchanged, whatever is called afterwards.
C17_StoredNeverReplaced ==
    [][\A id \in DOMAIN credentials :
           id \in DOMAIN credentials' /\ credentials'[id] = credentials[id]]_vars

\* StoreCredential succeeded under an id that already held another
\* credential, and the repository now returns the later one
C17_LaterStoreReplaced ==
    /\ last.op = "StoreCredential"
    /\ last.err = ""
    /\ last.replaced # NoCredential
    /\ last.replaced # last.credential
    /\ last.replaced.ID = last.credential.ID
    /\ credentials[last.credential.ID] = last.credential

\* some verification request finds the presentation valid
PassesSomeVerification(vp) ==
    \E requiredClaims \in RequiredClaimLists, trustedIssuers \in TrustedIssuerLists,
       verificationNonce \in VerificationNonces :
        VerifyPresentation([Presentation |-> vp, RequiredClaims |-> requiredClaims,
                            TrustedIssuers |-> trustedIssuers,
                            VerificationNonce |-> verificationNonce]).Valid

\* C18: every presentation in the presentation repository is one that
\* VerifyPresentation found valid, and a verification that ends invalid stores
\* nothing: the repository changes only in a VerifyPresentation step with a
\* valid result, which writes the presentation verified.
C18_OnlyVerifiedPresentations ==
    [][/\ (last'.op = "VerifyPresentation" /\ ~last'.result.Valid)
              => presentations' = presentations
       /\ presentations' # presentations =>
              /\ last'.op = "VerifyPresentation"
              /\ last'.result.Valid
              /\ presentations' = RepositoryStore(presentations, last'.verifyReq.Presentation)
       /\ \A id \in DOMAIN presentations' : PassesSomeVerification(presentations'[id])]_vars

\* a verification that ended invalid left the repository empty
C18_InvalidNotStored ==
    /\ last.op = "VerifyPresentation"
    /\ ~last.result.Valid
    /\ last.verifyReq.Presentation # NoPresentation
    /\ presentations = EmptyMap

\* a verification that ended valid wrote the presentation verified
C18_ValidStored ==
    /\ last.op = "VerifyPresentation"
    /\ last.result.Valid
    /\ last.verifyReq.Presentation.ID \in DOMAIN presentations
    /\ presentations[last.verifyReq.Presentation.ID] = last.verifyReq.Presentation

\* C22: ListVerifiedPresentations returns every presentation that
\* VerifyPresentation found valid and stored.
C22_ListsVerified ==
    last.op = "ListVerifiedPresentations" =>
        \A id \in DOMAIN presentations : presentations[id] \in last.listed

\* with a verified presentation of a holder in the repository, the list
\* returned was empty
C22_VerifiedNotListed ==
    /\ last.op = "ListVerifiedPresentations"
    /\ \E id \in DOMAIN presentations :
           /\ presentations[id].Holder = Holder1
           /\ PassesSomeVerification(presentations[id])
    /\ last.listed = {}

\* the credential repository, the presentation repository and the issuer
\* key store are left as they were
StoresUnchanged == UNCHANGED <<credentials, presentations, keyStore>>

\* C26: CreatePresentation, whether it succeeds or fails, leaves the
\* credential repository, the presentation repository and the issuer key
\* store unchanged; so does an IssueCredential or StoreCredential that returns
\* an error and a VerifyPresentation that returns valid=false.
C26_FailedCallsChangeNothing ==
    [][/\ last'.op = "CreatePresentation" => StoresUnchanged
       /\ (last'.op \in {"IssueCredential", "StoreCredential"} /\ last'.err # "")
              => StoresUnchanged
       /\ (last'.op = "VerifyPresentation" /\ ~last'.result.Valid) => StoresUnchanged]_vars

\* StoreCredential of a credential without a proof returned an error, with a
\* credential in the repository and none under the id of the one refused
C26_RefusedStoreKeepsRepository ==
    /\ last.op = "StoreCredential"
    /\ last.err # ""
    /\ last.credential # NoCredential
    /\ last.credential.Proof = NoVcProof
    /\ credentials # EmptyMap
    /\ \A id \in DOMAIN credentials : credentials[id] # last.credential

\* CreatePresentation returned a presentation and the presentation
\* repository is empty
C26_PresentationNotStored ==
    /\ last.op = "CreatePresentation"
    /\ last.err = ""
    /\ last.presentation # NoPresentation
    /\ presentations = EmptyMap
    /\ credentials # EmptyMap

\* the credential requested at position i is in the repository and its
\* subject id is the holder DID of the request
OwnedByRequester(i) ==
    /\ last.presReq.CredentialIDs[i] \in DOMAIN credentials
    /\ "id" \in DOMAIN credentials[last.presReq.CredentialIDs[i]].CredentialSubject
    /\ credentials[last.presReq.CredentialIDs[i]].CredentialSubject["id"]
           = last.presReq.HolderDID

C27_MissingRefused ==
    /\ last.op = "CreatePresentation"
    /\ last.presReq.HolderDID = Holder1
    /\ Len(last.presReq.CredentialIDs) = 1
    /\ last.presReq.CredentialIDs[1] \notin DOMAIN credentials
    /\ credentials # EmptyMap
    /\ last.err = "failed to retrieve credential"

(***************************************************************************)
(* Properties of the DID repository (SpecDID), stated on the calls made    *)
(***************************************************************************)
\* call j created a document under d
CreatedAt(j, d) ==
    didLog[j].op = "Create" /\ didLog[j].doc # NilDoc /\ DocID(didLog[j].doc) = d

\* before call k, a document was created under d and d was not deactivated since
LiveAt(k, d) ==
    \E j \in 1 .. (k - 1) :
        /\ CreatedAt(j, d)
        /\ \A i \in (j + 1) .. (k - 1) :
               ~(didLog[i].op = "Deactivate" /\ didLog[i].did = d)

\* call j stored a document under d
StoredAt(j, d) ==
    \/ CreatedAt(j, d)
    \/ didLog[j].op = "Update" /\ didLog[j].did = d /\ didLog[j].doc # NilDoc /\ LiveAt(j, d)

\* the document most recently stored under d before call k
LatestAt(k, d) ==
    LET j == CHOOSE x \in 1 .. (k - 1) :
                 StoredAt(x, d) /\ \A i \in (x + 1) .. (k - 1) : ~StoredAt(i, d)
    IN  didLog[j].doc

\* C23: in every sequence of Create, Update, Deactivate and Resolve calls,
\* Resolve(d) succeeds exactly when a document was created under d and d was
\* not deactivated since, and returns the document most recently stored under
\* d; Update of a DID never created, or deactivated, fails and changes nothing.
C23_ResolveFollowsHistory ==
    \A k \in 1 .. Len(didLog) :
        /\ didLog[k].op = "Resolve" =>
               /\ didLog[k].err = "" <=> LiveAt(k, didLog[k].did)
               /\ didLog[k].result = IF LiveAt(k, didLog[k].did)
                                     THEN LatestAt(k, didLog[k].did) ELSE NilDoc
               /\ didLog[k].after = didLog[k].before
        /\ (didLog[k].op = "Update" /\ ~LiveAt(k, didLog[k].did)) =>
               /\ didLog[k].err = "DID document not found"
               /\ didLog[k].after = didLog[k].before

\* a document was created and replaced by another, Resolve returned the
\* later one, and an Update of a DID never created failed
C23_UpdatedThenResolved ==
    /\ Len(didLog) = 4
    /\ didLog[1].op = "Create" /\ didLog[1].doc = 1
    /\ didLog[2].op = "Update" /\ didLog[2].did = "did:test:1" /\ didLog[2].doc = 2
    /\ didLog[3].op = "Resolve" /\ didLog[3].did = "did:test:1"
    /\ didLog[3].err = "" /\ didLog[3].result = 2
    /\ didLog[4].op = "Update" /\ didLog[4].did = "did:test:2" /\ didLog[4].doc = 3
    /\ didLog[4].err = "DID document not found"
    /\ "did:test:2" \notin DOMAIN documents

\* a DID was created, deactivated and then resolved without success
C23_DeactivatedNotResolved ==
    /\ Len(didLog) = 4
    /\ didLog[1].op = "Create" /\ didLog[1].doc = 3
    /\ didLog[2].op = "Deactivate" /\ didLog[2].did = "did:test:2"
    /\ didLog[3].op = "Update" /\ didLog[3].did = "did:test:2" /\ didLog[3].err # ""
    /\ didLog[4].op = "Resolve" /\ didLog[4].did = "did:test:2" /\ didLog[4].err # ""

(***************************************************************************)
(* Properties of concurrent requests (SpecConcurrent)                      *)
(***************************************************************************)
\* C24: no write of the key-store map overlaps a read or another write of it.
C24_NoOverlappingAccess ==
    \A t \in Workers : workers[t].pc = "writing" => Accessing(t) = {}

\* two SetupIssuer requests are inside their map assignment at once
C24_TwoWriters ==
    /\ workers[1].pc = "writing"
    /\ workers[2].pc = "writing"
    /\ workers[1].raced /\ workers[2].raced

\* a map read by IssueCredential overlapped a map write by SetupIssuer, and
\* the runtime stopped the process
C24_ReadDuringWriteFatal ==
    /\ crashed
    /\ \E t \in Workers :
           /\ workers[t].outcome = "fatal error: concurrent map read and map write"
           /\ Writing(t) # {}

(***************************************************************************)
(* Properties of the BBS+ primitive (SpecBBS)                              *)
(***************************************************************************)
\* the last call was Verify with the signature Sign returned
VerifiedOwnSignature == bbsLast.op = "Verify" /\ signed.done /\ bbsLast.sig = signed.sig

\* the last call was VerifyProof, given the messages CreateProof revealed, in
\* the order of its index list
VerifiedOwnProof ==
    /\ bbsLast.op = "VerifyProof"
    /\ proofMade.done
    /\ bbsLast.publicKey = keyPair.PublicKey
    /\ bbsLast.messages = RevealedOf(signed.messages, proofMade.revealedIndices)

\* C7: Verify fails when it is given a signature of Sign with a message vector
\* other than the signed one, or with a public key other than the signer's.
C7_VerifyRejectsOtherInput ==
    (VerifiedOwnSignature
        /\ (bbsLast.messages # signed.messages \/ bbsLast.publicKey # keyPair.PublicKey))
    => bbsLast.err # ""

\* Verify accepted a signature over a message vector that was not signed,
\* under the signer's key
C7_OtherMessagesAccepted ==
    /\ VerifiedOwnSignature
    /\ bbsLast.publicKey = keyPair.PublicKey
    /\ bbsLast.messages # signed.messages
    /\ bbsLast.err = ""

\* C8: VerifyProof succeeds on the proof CreateProof returned, given the
\* messages at the revealed indices in the same order and the same nonce,
\* whatever scalars Sign and CreateProof drew.
C8_ProofRoundTrip ==
    (VerifiedOwnProof /\ bbsLast.nonce = proofMade.nonce) => bbsLast.err = ""

\* VerifyProof rejected the proof of CreateProof with the inputs it was made
\* for: the signature is a proper one and A' is the identity
C8_OwnProofRejected ==
    /\ VerifiedOwnProof
    /\ bbsLast.nonce = proofMade.nonce
    /\ ~G1IsZero(signed.sig.A.pt)
    /\ bbsLast.err = "proof verification failed: A' is zero"

\* C9: Verify succeeds on the signature Sign returned, with the signed
\* messages and the public key of the signing key, whatever e and s Sign drew.
C9_SignVerifyRoundTrip ==
    (VerifiedOwnSignature
        /\ bbsLast.messages = signed.messages /\ bbsLast.publicKey = keyPair.PublicKey)
    => bbsLast.err = ""

\* Verify rejected the signature of Sign with the inputs it was made for
C9_OwnSignatureRejected ==
    /\ VerifiedOwnSignature
    /\ bbsLast.messages = signed.messages
    /\ bbsLast.publicKey = keyPair.PublicKey
    /\ bbsLast.err = "signature verification failed: A is zero"

\* C10: VerifyProof rejects a proof made with nonce N when it is called with
\* the same revealed messages and a nonce other than N.
C10_NonceBinding ==
    (VerifiedOwnProof /\ bbsLast.nonce # proofMade.nonce) => bbsLast.err # ""

\* a proof that verifies with its own nonce (A' is not the identity) was
\* given with another non-empty nonce and failed the challenge comparison
C10_OtherNonceRejected ==
    /\ VerifiedOwnProof
    /\ bbsLast.nonce # proofMade.nonce
    /\ bbsLast.nonce # <<>>
    /\ ~G1IsZero(proofMade.proof.A_prime.pt)
    /\ Len(proofMade.revealedIndices) > 0
    /\ bbsLast.err = "challenge verification failed"


\* the arguments of the last CreateProof fail its validation: the nonce is
\* empty, an index is listed twice, or an index is not one of 0 .. n-1
BadProofArguments ==
    \/ Len(bbsLast.nonce) = 0
    \/ \E i, j \in 1 .. Len(bbsLast.revealedIndices) :
           i # j /\ bbsLast.revealedIndices[i] = bbsLast.revealedIndices[j]
    \/ \E i \in 1 .. Len(bbsLast.revealedIndices) :
           bbsLast.revealedIndices[i] \notin 0 .. (Len(bbsLast.messages) - 1)

\* C15: CreateProof returns an error and no proof when the nonce is empty, an
\* index is repeated or an index does not address a signed message; with any
\* other index list and a non-empty nonce it returns a proof.
C15_ProofArgumentsValidated ==
    bbsLast.op = "CreateProof" =>
        IF BadProofArguments
        THEN bbsLast.err \in {"nonce is required", "invalid revealed indices"}
             /\ bbsLast.proof = NoProof /\ ~proofMade.done
        ELSE bbsLast.err = "" /\ bbsLast.proof # NoProof

\* a repeated index with a non-empty nonce was refused
C15_DuplicateRefused ==
    /\ bbsLast.op = "CreateProof"
    /\ Len(bbsLast.messages) = 2
    /\ bbsLast.revealedIndices = <<0, 0>>
    /\ Len(bbsLast.nonce) > 0
    /\ bbsLast.err = "invalid revealed indices"
    /\ bbsLast.proof = NoProof

\* C19: ValidateKeyPair accepts a 32-byte private key sk with a public key pk
\* exactly when pk is the encoding of g2 * sk, byte for byte; the pair that
\* GenerateKeyPair returned passes.
C19_ValidateKeyPair ==
    bbsLast.op = "ValidateKeyPair" =>
        /\ bbsLast.err = ""
           <=> /\ bbsLast.privateKey.len = FrBytes
               /\ bbsLast.publicKey.len = G2Bytes
               /\ bbsLast.publicKey.pt = (bbsLast.privateKey.v * G2One) % FieldOrder
        /\ (bbsLast.privateKey = keyPair.PrivateKey /\ bbsLast.publicKey = keyPair.PublicKey)
           => bbsLast.err = ""

\* the generated private key with a well-formed public key of another
\* private key was rejected
C19_OtherPublicKeyRejected ==
    /\ bbsLast.op = "ValidateKeyPair"
    /\ bbsLast.privateKey = keyPair.PrivateKey
    /\ bbsLast.publicKey # keyPair.PublicKey
    /\ G2FromBytesOk(bbsLast.publicKey)
    /\ bbsLast.err = "public key does not correspond to private key"

\* the generated key pair was validated and passed
C19_GeneratedPairPasses ==
    /\ bbsLast.op = "ValidateKeyPair"
    /\ bbsLast.privateKey = keyPair.PrivateKey
    /\ bbsLast.publicKey = keyPair.PublicKey
    /\ bbsLast.err = ""

\* C20: for every proof that CreateProof returned, DecodeProof(EncodeProof(p))
\* succeeds and returns p: the same A', A_bar, c, r2, r3, hidden responses,
\* revealed indices and nonce.
C20_EncodeDecodeRoundTrip ==
    bbsLast.op = "DecodeProof" =>
        /\ bbsLast.err = ""
        /\ bbsLast.decoded.A_prime = bbsLast.proof.A_prime
        /\ bbsLast.decoded.A_bar = bbsLast.proof.A_bar
        /\ bbsLast.decoded.C = bbsLast.proof.C
        /\ bbsLast.decoded.R2 = bbsLast.proof.R2
        /\ bbsLast.decoded.R3 = bbsLast.proof.R3
        /\ bbsLast.decoded.HiddenResponses = bbsLast.proof.HiddenResponses
        /\ bbsLast.decoded.RevealedAttributes = bbsLast.proof.RevealedAttributes
        /\ bbsLast.decoded.Nonce = bbsLast.proof.Nonce

\* a proof that reveals both messages, the second first, under a nonce of two
\* bytes came back from the round trip
C20_TwoIndicesDecoded ==
    /\ bbsLast.op = "DecodeProof"
    /\ bbsLast.proof = proofMade.proof
    /\ bbsLast.proof.A_prime.len = G1Bytes
    /\ bbsLast.proof.RevealedAttributes = <<1, 0>>
    /\ Len(bbsLast.proof.Nonce) = 2
    /\ bbsLast.err = ""
    /\ bbsLast.decoded = bbsLast.proof

\* C21: DecodeProof returns an error, and no proof, for every input that has
\* bytes after the nonce it announces and for every input too short for the
\* lengths it announces.
C21_WrongLengthRejected ==
    bbsLast.op = "DecodeProofInput" => (bbsLast.err # "" /\ bbsLast.decoded = NoProof)

\* an encoded proof followed by one more byte was decoded without an error,
\* to the proof encoded
C21_OverlongAccepted ==
    /\ bbsLast.op = "DecodeProofInput"
    /\ bbsLast.trailing = 1
    /\ bbsLast.err = ""
    /\ bbsLast.decoded = proofMade.proof

\* an encoded proof cut off by one byte was rejected
C21_TruncatedRejected ==
    /\ bbsLast.op = "DecodeProofInput"
    /\ bbsLast.trailing = -1
    /\ bbsLast.err = "insufficient data for nonce"

\* C25: the private key that GenerateKeyPair returns is never 0.
C25_PrivateKeyNonZero ==
    keyPair # NoKeyPair => FrFromBytes(keyPair.PrivateKey) # 0

\* GenerateKeyPair returned the private key 0, which random bytes equal to
\* the field order reduce to, with the identity of G2 as public key
C25_ZeroPrivateKey ==
    /\ bbsLast.op = "GenerateKeyPair"
    /\ keyPair.PrivateKey = ScalarFromRandom(FieldOrder)
    /\ keyPair.PrivateKey = ScalarBytes(0)
    /\ keyPair.PublicKey = G2ToBytes(0)
    /\ bbsLast.err = ""

\* C28: VerifyProof, under the signer's key, accepts a proof of CreateProof
\* only with the nonce it was made with, the messages at its revealed indices,
\* element by element, and its revealed index list as CreateProof wrote it.
C28_RevealedMessagesBound ==
    (/\ bbsLast.op = "VerifyProof"
     /\ proofMade.done
     /\ bbsLast.publicKey = keyPair.PublicKey
     /\ bbsLast.err = "")
    => /\ bbsLast.nonce = proofMade.nonce
       /\ bbsLast.messages = RevealedOf(signed.messages, proofMade.revealedIndices)
       /\ bbsLast.proof.RevealedAttributes = proofMade.revealedIndices

\* a proof that reveals two messages was accepted, with its own nonce, for the
\* two messages in the other order: their concatenation is the same
C28_OtherMessagesAccepted ==
    /\ bbsLast.op = "VerifyProof"
    /\ proofMade.done
    /\ bbsLast.publicKey = keyPair.PublicKey
    /\ bbsLast.proof = proofMade.proof
    /\ bbsLast.nonce = proofMade.nonce
    /\ Len(bbsLast.messages) = 2
    /\ Len(proofMade.revealedIndices) = 2
    /\ bbsLast.messages # RevealedOf(signed.messages, proofMade.revealedIndices)
    /\ Concat(bbsLast.messages)
           = Concat(RevealedOf(signed.messages, proofMade.revealedIndices))
    /\ bbsLast.err = ""

\* a proof whose revealed index list was replaced by another was accepted for
\* the nonce and the messages it was made for
C28_OtherIndicesAccepted ==
    /\ bbsLast.op = "VerifyProof"
    /\ proofMade.done
    /\ bbsLast.publicKey = keyPair.PublicKey
    /\ bbsLast.nonce = proofMade.nonce
    /\ bbsLast.messages = RevealedOf(signed.messages, proofMade.revealedIndices)
    /\ bbsLast.proof.RevealedAttributes # proofMade.revealedIndices
    /\ Len(bbsLast.proof.RevealedAttributes) = 1
    /\ bbsLast.err = ""

\* a proof was accepted with a shorter nonce and a longer message than it was
\* made for
C28_OtherNonceAccepted ==
    /\ bbsLast.op = "VerifyProof"
    /\ proofMade.done
    /\ bbsLast.publicKey = keyPair.PublicKey
    /\ bbsLast.proof = proofMade.proof
    /\ bbsLast.nonce # proofMade.nonce
    /\ Len(bbsLast.messages) = Len(proofMade.revealedIndices)
    /\ bbsLast.err = ""

(***************************************************************************)
(* Properties of the provider test endpoint (SpecProvider)                 *)
(***************************************************************************)
\* the endpoint answered a well-formed request for the simple or the
\* production provider
TestedSupported ==
    /\ providerLast.op = "TestProvider"
    /\ providerLast.status = 200
    /\ providerLast.method = "POST"
    /\ providerLast.response.Provider \in {ProviderSimple, ProviderProduction}

\* the factory makes the provider's service from the default configuration
\* and the service's key generation does not fail
ProviderWorks ==
    /\ CreateService(providerLast.provider, DefaultConfig).err = <<>>
    /\ providerLast.keyErr = <<>>

\* C29: the test endpoint reports the simple and the production provider
\* available exactly when the provider's service can be made and can generate
\* a key pair.
C29_AvailableWhenWorking ==
    TestedSupported => (providerLast.response.Available <=> ProviderWorks)

\* the simple provider, whose service the factory makes and whose key
\* generation cannot fail, was reported unavailable
C29_SimpleUnavailable ==
    /\ TestedSupported
    /\ providerLast.provider = ProviderSimple
    /\ ProviderWorks
    /\ ~providerLast.response.Available
    /\ providerLast.response.Message
           = <<"Failed to create service", "invalid config for provider", ProviderSimple,
               "operation timeout must be positive">>

\* whatever the provider and the outcome of key generation, the endpoint
\* reports no provider available
C29_NeverAvailable ==
    providerLast.op = "TestProvider" => ~providerLast.response.Available

(***************************************************************************)
(* Properties of the age claims (SpecAge)                                  *)
(***************************************************************************)
\* whole years from the birth date to the date now: the year difference, less
\* one when the month and day of birth come later in the year than now
WholeYears(birth, now) ==
    LET before == \/ now.month < birth.month
                  \/ now.month = birth.month /\ now.day < birth.day
    IN  (now.year - birth.year) - (IF before THEN 1 ELSE 0)

AgeComputed ==
    /\ ageLast.op \in {"IssueAgeCredential", "calculateAge"}
    /\ ageLast.err = ""
    /\ TimeParse(ageLast.dateOfBirth).err = ""

\* C30: the age computed is the number of whole years since the birth date,
\* and each ageOverN claim issued is true exactly when that number is at
\* least N.
C30_AgeIsWholeYears ==
    AgeComputed =>
        /\ ageLast.age = WholeYears(ageLast.dateOfBirth, ageLast.now)
        /\ ageLast.op = "IssueAgeCredential" =>
               \A N \in AgeThresholds :
                   ageLast.ageOver[N] <=> WholeYears(ageLast.dateOfBirth, ageLast.now) >= N

\* born on 1 March of a leap year, on the 13th birthday in a common year the
\* subject is not given ageOver13
C30_BirthdayInCommonYear ==
    /\ ageLast.op = "IssueAgeCredential"
    /\ ageLast.err = ""
    /\ isLeap(ageLast.dateOfBirth.year)
    /\ ~isLeap(ageLast.now.year)
    /\ ageLast.dateOfBirth.month = 3 /\ ageLast.dateOfBirth.day = 1
    /\ ageLast.now.month = 3 /\ ageLast.now.day = 1
    /\ WholeYears(ageLast.dateOfBirth, ageLast.now) = 13
    /\ ~ageLast.ageOver[13]

\* born on 1 March of a common year, on 29 February of a leap year the
\* subject is given ageOverN one day before turning N
C30_DayBeforeBirthday ==
    /\ ageLast.op = "IssueAgeCredential"
    /\ ageLast.err = ""
    /\ ageLast.dateOfBirth.month = 3 /\ ageLast.dateOfBirth.day = 1
    /\ ageLast.now.month = 2 /\ ageLast.now.day = 29
    /\ \E N \in AgeThresholds :
           /\ ageLast.ageOver[N]
           /\ WholeYears(ageLast.dateOfBirth, ageLast.now) < N

\* away from leap years the age computed is the number of whole years
C30_SomeAgeRight ==
    /\ AgeComputed
    /\ ageLast.age = WholeYears(ageLast.dateOfBirth, ageLast.now)
    /\ ageLast.age >= 13

=============================================================================
